---- MODULE Spec2Model ----
(***************************************************************************)
(* Model of the table state and transaction engine of DBDaemon:            *)
(*   - the dual-timeline versioning engine (dual_versioned_data.rs),       *)
(*   - the single-timeline versioning engine (single_versioned_data.rs),   *)
(*   - the update batch (updates.rs, table_data.rs) and its flush,         *)
(*   - the table registry and its guards (state.rs, table_state.rs,        *)
(*     table_write.rs) with register_table / unregister_table              *)
(*     (dbdaemon.rs).                                                      *)
(* Option<T> is modelled as a sequence of length at most one.              *)
(***************************************************************************)
EXTENDS Integers, Sequences, FiniteSets, TLC

(* ---------------- bounds ---------------- *)

\* number of dual-timeline transactions (one timestamp each)
MaxTime == 2

\* number of single-timeline transactions
MaxSingleTxns == 3

\* number of register_table / unregister_table calls made
MaxCalls == 4

Objects == {"o1"}

Values == {"x", "y"}

None == << >>

Some(x) == << x >>

IsSome(o) == Len(o) = 1

IsNone(o) == Len(o) = 0

Unwrap(o) == o[1]

(* ---------------- dbschema record transforms ---------------- *)

\* Anchor { created, from, to }
Anchor(created, from, to) == [created |-> created, from |-> from, to |-> to]

\* DualVersionedValue::new(now, value, commit)
DualVersionedValue_new(now, value, commit) ==
    [version |-> [current |-> Anchor(now, now, None),
                  committed |-> IF commit THEN Some(now) ELSE None,
                  active |-> None],
     value |-> value]

\* DualVersionedValue::update(self, now, value, commit): a fresh current
\* segment starting at now; the new record carries no active anchor.
DualVersionedValue_update(v, now, value, commit) ==
    [version |-> [current |-> Anchor(v.version.current.created, now, None),
                  committed |-> IF commit THEN Some(now) ELSE None,
                  active |-> None],
     value |-> value]

\* DualVersionedValue::update_uncommitted(self, now, value, commit):
\* in place, current.from retained.
DualVersionedValue_update_uncommitted(v, now, value, commit) ==
    [version |-> [v.version EXCEPT !.committed =
                        IF commit THEN Some(now) ELSE None],
     value |-> value]

\* DualVersionedValue::remove(self, now): current.to := now
DualVersionedValue_remove(v, now) ==
    [v EXCEPT !.version.current.to = Some(now)]

\* DualVersionedValue::activate(self, now, prev_active)
DualVersionedValue_activate(v, now, prev_active) ==
    [v EXCEPT !.version.active =
        Some(Anchor(IF IsSome(prev_active) THEN Unwrap(prev_active).created
                                           ELSE now,
                    now, None))]

\* DualVersionedValue::activate_remove(self, now): active.to := now
DualVersionedValue_activate_remove(v, now) ==
    IF IsSome(v.version.active)
    THEN [v EXCEPT !.version.active =
            Some([Unwrap(v.version.active) EXCEPT !.to = Some(now)])]
    ELSE v

\* SingleVersionedValue::new(now, value)
SingleVersionedValue_new(now, value) ==
    [version |-> Anchor(now, now, None), value |-> value]

\* SingleVersionedValue::update(self, now, value)
SingleVersionedValue_update(v, now, value) ==
    [version |-> Anchor(v.version.created, now, None), value |-> value]

\* SingleVersionedValue::remove(self, now)
SingleVersionedValue_remove(v, now) ==
    [v EXCEPT !.version.to = Some(now)]

(* ---------------- table_data.rs: ElasticDoc ---------------- *)

\* ElasticDoc::new(value); the random ElasticId is the next unused id
ElasticDoc_new(id, value) ==
    [elastic_id |-> id, version |-> 0, value |-> value]

\* ElasticDoc::update(self, f), with f(self.value) = value
ElasticDoc_update(doc, value) ==
    [elastic_id |-> doc.elastic_id, version |-> doc.version + 1, value |-> value]

(* ---------------- updates.rs: UpdateGuard ---------------- *)
\* The batch is the HashMap<ElasticId, (u64, Identified<T>)>, a function
\* from the elastic ids it holds.  A commit context c carries the batch
\* (c.u) and the next unused elastic id (c.n).

EmptyBatch == << >>

BatchIds(b) == DOMAIN b

\* UpdateGuard::insert / insert_doc: HashMap::insert, the latest entry wins
UpdateGuard_insert(b, object_id, doc) ==
    [i \in (DOMAIN b) \cup {doc.elastic_id} |->
        IF i = doc.elastic_id
        THEN [version |-> doc.version, object_id |-> object_id, value |-> doc.value]
        ELSE b[i]]

\* UpdateGuard::create
UpdateGuard_create(c, object_id, value) ==
    LET doc == ElasticDoc_new(c.n, value)
    IN [u |-> UpdateGuard_insert(c.u, object_id, doc), n |-> c.n + 1, doc |-> doc]

\* UpdateGuard::update that writes the new value under a fresh document id
UpdateGuard_update_fresh(c, object_id, doc, value) ==
    LET d == ElasticDoc_new(c.n, value)
    IN [u |-> UpdateGuard_insert(c.u, object_id, d), n |-> c.n + 1, doc |-> d]

\* UpdateGuard::update
UpdateGuard_update(c, object_id, doc, value) ==
    LET d == ElasticDoc_update(doc, value)
    IN [u |-> UpdateGuard_insert(c.u, object_id, d), n |-> c.n, doc |-> d]

\* UpdateGuard::remove that keeps the document's version
UpdateGuard_remove_same_version(c, object_id, doc, value) ==
    [u |-> UpdateGuard_insert(c.u, object_id, [doc EXCEPT !.value = value]),
     n |-> c.n]

\* UpdateGuard::remove
UpdateGuard_remove(c, object_id, doc, value) ==
    LET d == ElasticDoc_update(doc, value)
    IN [u |-> UpdateGuard_insert(c.u, object_id, d), n |-> c.n]

\* UpdateGuard::split that leaves the previous document out of the batch
UpdateGuard_split_new_only(c, object_id, doc, prevv, newv) ==
    LET new == ElasticDoc_new(c.n, newv)
        prev == ElasticDoc_update(doc, prevv)
    IN [u |-> UpdateGuard_insert(c.u, object_id, new),
        n |-> c.n + 1, prev |-> prev, new |-> new]

\* UpdateGuard::split (ElasticDoc::update_new, then both are inserted)
UpdateGuard_split(c, object_id, doc, prevv, newv) ==
    LET new == ElasticDoc_new(c.n, newv)
        prev == ElasticDoc_update(doc, prevv)
    IN [u |-> UpdateGuard_insert(UpdateGuard_insert(c.u, object_id, prev),
                                 object_id, new),
        n |-> c.n + 1, prev |-> prev, new |-> new]

\* UpdateGuard::replace that inserts the new document only
UpdateGuard_replace_unsplit(c, object_id, doc, prevv, newv) ==
    LET new == ElasticDoc_new(c.n, newv)
    IN [u |-> UpdateGuard_insert(c.u, object_id, new), n |-> c.n + 1, doc |-> new]

\* UpdateGuard::replace: as split, the new document is returned
UpdateGuard_replace(c, object_id, doc, prevv, newv) ==
    LET r == UpdateGuard_split(c, object_id, doc, prevv, newv)
    IN [u |-> r.u, n |-> r.n, doc |-> r.new]

(* ---------------- dual_versioned_data.rs: object state and token ---------------- *)

\* DualVersionedObj::created / removed / activated / updated
DualVersionedObj_created(current, committed) ==
    [kind |-> "Created", active |-> None, current |-> Some(current),
     committed |-> committed]

DualVersionedObj_removed(active) ==
    [kind |-> "Removed", active |-> Some(active), current |-> None,
     committed |-> FALSE]

DualVersionedObj_activated(active) ==
    [kind |-> "Activated", active |-> Some(active), current |-> None,
     committed |-> FALSE]

DualVersionedObj_updated(active, current, committed) ==
    [kind |-> "Updated", active |-> Some(active), current |-> Some(current),
     committed |-> committed]

\* DualVersionedObj::get_current
DualVersionedObj_get_current(obj) ==
    CASE obj.kind = "Created" -> obj.current
      [] obj.kind = "Updated" -> obj.current
      [] obj.kind = "Activated" -> obj.active
      [] OTHER -> None

\* DualVersionedObj::get_active
DualVersionedObj_get_active(obj) ==
    CASE obj.kind = "Created" -> None
      [] OTHER -> obj.active

\* DualVersionedData::get_current: payload of the current record, if any
DualVersionedData_get_current(d, o) ==
    IF IsNone(d[o]) THEN None
    ELSE LET doc == DualVersionedObj_get_current(Unwrap(d[o]))
         IN IF IsNone(doc) THEN None ELSE Some(Unwrap(doc).value.value)

\* DualVersionedData::get_active
DualVersionedData_get_active(d, o) ==
    IF IsNone(d[o]) THEN None
    ELSE LET doc == DualVersionedObj_get_active(Unwrap(d[o]))
         IN IF IsNone(doc) THEN None ELSE Some(Unwrap(doc).value.value)

NoVal == "-"

\* enum DualVersionedUpdate
Tok(tag, before, value, commit) ==
    [tag |-> tag, before |-> before, value |-> value, commit |-> commit]

T_Insert(v, c) == Tok("Insert", NoVal, v, c)

T_Remove == Tok("Remove", NoVal, NoVal, FALSE)

T_Activate == Tok("Activate", NoVal, NoVal, FALSE)

T_ActivateInsert(v, c) == Tok("ActivateInsert", NoVal, v, c)

T_ActivateRemove == Tok("ActivateRemove", NoVal, NoVal, FALSE)

T_InsertActivate(v) == Tok("InsertActivate", v, NoVal, FALSE)

T_InsertActivateInsert(b, v, c) == Tok("InsertActivateInsert", b, v, c)

T_InsertActivateRemove(b) == Tok("InsertActivateRemove", b, NoVal, FALSE)

T_RemoveActivate == Tok("RemoveActivate", NoVal, NoVal, FALSE)

T_RemoveActivateInsert(v, c) == Tok("RemoveActivateInsert", NoVal, v, c)

\* DualVersionedUpdate::get_current(get_current)
DualVersionedUpdate_get_current(t, base_current) ==
    CASE t.tag \in {"Insert", "ActivateInsert", "InsertActivateInsert",
                    "RemoveActivateInsert"} -> Some(t.value)
      [] t.tag = "InsertActivate" -> Some(t.before)
      [] t.tag \in {"Remove", "ActivateRemove", "InsertActivateRemove",
                    "RemoveActivate"} -> None
      [] OTHER -> base_current

\* DualVersionedUpdate::get_active(get_current, get_active)
DualVersionedUpdate_get_active(t, base_current, base_active) ==
    CASE t.tag \in {"Insert", "Remove"} -> base_active
      [] t.tag \in {"Activate", "ActivateInsert", "ActivateRemove"} -> base_current
      [] t.tag \in {"InsertActivate", "InsertActivateInsert",
                    "InsertActivateRemove"} -> Some(t.before)
      [] OTHER -> None

\* DualVersionedUpdate::insert
DualVersionedUpdate_insert(t, value, commit) ==
    CASE t.tag \in {"Insert", "Remove"} -> T_Insert(value, commit)
      [] t.tag \in {"Activate", "ActivateInsert", "ActivateRemove"} ->
            T_ActivateInsert(value, commit)
      [] t.tag \in {"InsertActivate", "InsertActivateInsert",
                    "InsertActivateRemove"} ->
            T_InsertActivateInsert(t.before, value, commit)
      [] OTHER -> T_RemoveActivateInsert(value, commit)

\* DualVersionedUpdate::remove
DualVersionedUpdate_remove(t) ==
    CASE t.tag \in {"Insert", "Remove"} -> T_Remove
      [] t.tag \in {"Activate", "ActivateInsert", "ActivateRemove"} ->
            T_ActivateRemove
      [] t.tag \in {"InsertActivate", "InsertActivateInsert",
                    "InsertActivateRemove"} -> T_InsertActivateRemove(t.before)
      [] OTHER -> T_RemoveActivate

\* activate that promotes the payload recorded at the earlier activate
DualVersionedUpdate_activate_before(t) ==
    CASE t.tag \in {"Activate", "InsertActivate", "RemoveActivate"} -> t
      [] t.tag = "InsertActivateInsert" -> T_InsertActivate(t.before)
      [] t.tag \in {"Insert", "ActivateInsert", "RemoveActivateInsert"} ->
            T_InsertActivate(t.value)
      [] OTHER -> T_RemoveActivate

\* DualVersionedUpdate::activate
DualVersionedUpdate_activate(t) ==
    CASE t.tag \in {"Activate", "InsertActivate", "RemoveActivate"} -> t
      [] t.tag \in {"Insert", "ActivateInsert", "InsertActivateInsert",
                    "RemoveActivateInsert"} -> T_InsertActivate(t.value)
      [] OTHER -> T_RemoveActivate

\* DualVersionedTransaction::get_current: and_then(..).or_else(get_current)
DualVersionedTransaction_get_current(d, upd, o) ==
    LET base == DualVersionedData_get_current(d, o)
        seen == IF IsSome(upd[o])
                THEN DualVersionedUpdate_get_current(Unwrap(upd[o]), base)
                ELSE None
    IN IF IsSome(seen) THEN seen ELSE base

\* DualVersionedTransaction::get_active
DualVersionedTransaction_get_active(d, upd, o) ==
    LET base_c == DualVersionedData_get_current(d, o)
        base_a == DualVersionedData_get_active(d, o)
        seen == IF IsSome(upd[o])
                THEN DualVersionedUpdate_get_active(Unwrap(upd[o]), base_c, base_a)
                ELSE None
    IN IF IsSome(seen) THEN seen ELSE base_a

\* DualVersionedTransaction::insert
DualVersionedTransaction_insert(upd, o, value, commit) ==
    [upd EXCEPT ![o] =
        IF IsSome(upd[o])
        THEN Some(DualVersionedUpdate_insert(Unwrap(upd[o]), value, commit))
        ELSE Some(T_Insert(value, commit))]

\* DualVersionedTransaction::create: inserts only when no current is visible
DualVersionedTransaction_create(d, upd, o, value, commit) ==
    IF IsSome(DualVersionedTransaction_get_current(d, upd, o))
    THEN upd
    ELSE DualVersionedTransaction_insert(upd, o, value, commit)

\* DualVersionedTransaction::create, the bool it returns:
\* self.get_current(&object_id).is_some() || { self.insert(..); true }
DualVersionedTransaction_create_ret(d, upd, o) ==
    IsSome(DualVersionedTransaction_get_current(d, upd, o)) \/ TRUE

\* DualVersionedTransaction::update
DualVersionedTransaction_update(d, upd, o, value, commit) ==
    IF IsSome(DualVersionedTransaction_get_current(d, upd, o))
    THEN DualVersionedTransaction_insert(upd, o, value, commit)
    ELSE upd

\* DualVersionedTransaction::remove
DualVersionedTransaction_remove(d, upd, o) ==
    IF IsSome(DualVersionedTransaction_get_current(d, upd, o))
    THEN [upd EXCEPT ![o] =
            IF IsSome(upd[o]) THEN Some(DualVersionedUpdate_remove(Unwrap(upd[o])))
            ELSE Some(T_Remove)]
    ELSE upd

\* DualVersionedTransaction::activate
DualVersionedTransaction_activate(d, upd, o) ==
    IF IsSome(DualVersionedTransaction_get_current(d, upd, o))
       \/ IsSome(DualVersionedTransaction_get_active(d, upd, o))
    THEN [upd EXCEPT ![o] =
            IF IsSome(upd[o]) THEN Some(DualVersionedUpdate_activate(Unwrap(upd[o])))
            ELSE Some(T_Activate)]
    ELSE upd

(* ---------------- dual_versioned_data.rs: commit derivation ---------------- *)
\* One operator per token; obj is the Option<DualVersionedObj> removed from
\* the map, c the commit context, the result carries the new Option<obj>.

Kind(obj) == IF IsNone(obj) THEN "None" ELSE Unwrap(obj).kind

Act(obj) == Unwrap(Unwrap(obj).active)

Cur(obj) == Unwrap(Unwrap(obj).current)

Committed(obj) == Unwrap(obj).committed

Res(r, obj) == [obj |-> obj, u |-> r.u, n |-> r.n]

\* DualVersionedUpdate::Insert(value, commit)
Commit_Insert(obj, value, commit, now, c, o) ==
    CASE Kind(obj) = "Created" ->
            LET r == IF Committed(obj)
                     THEN UpdateGuard_replace(c, o, Cur(obj),
                            DualVersionedValue_remove(Cur(obj).value, now),
                            DualVersionedValue_update(Cur(obj).value, now, value, commit))
                     ELSE UpdateGuard_update(c, o, Cur(obj),
                            DualVersionedValue_update_uncommitted(Cur(obj).value, now, value, commit))
            IN Res(r, Some(DualVersionedObj_created(r.doc, commit)))
      [] Kind(obj) = "Removed" ->
            LET r == UpdateGuard_create(c, o, DualVersionedValue_new(now, value, commit))
            IN Res(r, Some(DualVersionedObj_updated(Act(obj), r.doc, commit)))
      [] Kind(obj) = "Activated" ->
            LET r == UpdateGuard_split(c, o, Act(obj),
                        DualVersionedValue_remove(Act(obj).value, now),
                        DualVersionedValue_update(Act(obj).value, now, value, commit))
            IN Res(r, Some(DualVersionedObj_updated(r.prev, r.new, commit)))
      [] Kind(obj) = "Updated" ->
            LET r == IF Committed(obj)
                     THEN UpdateGuard_replace(c, o, Cur(obj),
                            DualVersionedValue_remove(Cur(obj).value, now),
                            DualVersionedValue_update(Cur(obj).value, now, value, commit))
                     ELSE UpdateGuard_update(c, o, Cur(obj),
                            DualVersionedValue_update_uncommitted(Cur(obj).value, now, value, commit))
            IN Res(r, Some(DualVersionedObj_updated(Act(obj), r.doc, commit)))
      [] OTHER ->
            LET r == UpdateGuard_create(c, o, DualVersionedValue_new(now, value, commit))
            IN Res(r, Some(DualVersionedObj_created(r.doc, commit)))

\* DualVersionedUpdate::Remove
Commit_Remove(obj, now, c, o) ==
    CASE Kind(obj) = "Created" ->
            Res(UpdateGuard_remove(c, o, Cur(obj),
                    DualVersionedValue_remove(Cur(obj).value, now)), None)
      [] Kind(obj) = "Updated" ->
            Res(UpdateGuard_remove(c, o, Cur(obj),
                    DualVersionedValue_remove(Cur(obj).value, now)),
                Some(DualVersionedObj_removed(Act(obj))))
      [] Kind(obj) = "Activated" ->
            LET r == UpdateGuard_update(c, o, Act(obj),
                        DualVersionedValue_remove(Act(obj).value, now))
            IN Res(r, Some(DualVersionedObj_removed(r.doc)))
      [] OTHER -> Res(c, obj)

\* DualVersionedUpdate::Activate
Commit_Activate(obj, now, c, o) ==
    CASE Kind(obj) = "Created" ->
            LET r == UpdateGuard_update(c, o, Cur(obj),
                        DualVersionedValue_activate(Cur(obj).value, now, None))
            IN Res(r, Some(DualVersionedObj_activated(r.doc)))
      [] Kind(obj) = "Updated" ->
            LET r1 == UpdateGuard_update(c, o, Cur(obj),
                        DualVersionedValue_activate(Cur(obj).value, now,
                                                    Act(obj).value.version.active))
                r2 == UpdateGuard_remove(r1, o, Act(obj),
                        DualVersionedValue_activate_remove(Act(obj).value, now))
            IN Res(r2, Some(DualVersionedObj_activated(r1.doc)))
      [] Kind(obj) = "Removed" ->
            Res(UpdateGuard_remove(c, o, Act(obj),
                    DualVersionedValue_activate_remove(Act(obj).value, now)), None)
      [] OTHER -> Res(c, obj)

\* DualVersionedUpdate::ActivateInsert(value, commit)
Commit_ActivateInsert(obj, value, commit, now, c, o) ==
    CASE Kind(obj) = "Created" ->
            LET r == UpdateGuard_split(c, o, Cur(obj),
                        DualVersionedValue_remove(
                            DualVersionedValue_activate(Cur(obj).value, now, None), now),
                        DualVersionedValue_update(Cur(obj).value, now, value, commit))
            IN Res(r, Some(DualVersionedObj_updated(r.prev, r.new, commit)))
      [] Kind(obj) = "Updated" ->
            LET r1 == UpdateGuard_split(c, o, Cur(obj),
                        DualVersionedValue_activate(Cur(obj).value, now,
                                                    Act(obj).value.version.active),
                        DualVersionedValue_update(Cur(obj).value, now, value, commit))
                r2 == UpdateGuard_remove(r1, o, Act(obj),
                        DualVersionedValue_activate_remove(Act(obj).value, now))
            IN Res(r2, Some(DualVersionedObj_updated(r1.prev, r1.new, commit)))
      [] Kind(obj) = "Removed" ->
            LET r == UpdateGuard_replace(c, o, Act(obj),
                        DualVersionedValue_activate_remove(Act(obj).value, now),
                        DualVersionedValue_update(Act(obj).value, now, value, commit))
            IN Res(r, Some(DualVersionedObj_created(r.doc, commit)))
      [] Kind(obj) = "Activated" ->
            LET r == UpdateGuard_update(c, o, Act(obj),
                        DualVersionedValue_update(Act(obj).value, now, value, commit))
            IN Res(r, Some(DualVersionedObj_updated(Act(obj), r.doc, commit)))
      [] OTHER ->
            LET r == UpdateGuard_create(c, o, DualVersionedValue_new(now, value, commit))
            IN Res(r, Some(DualVersionedObj_created(r.doc, commit)))

\* DualVersionedUpdate::ActivateRemove
Commit_ActivateRemove(obj, now, c, o) ==
    CASE Kind(obj) = "Created" ->
            LET r == UpdateGuard_update(c, o, Cur(obj),
                        DualVersionedValue_remove(
                            DualVersionedValue_activate(Cur(obj).value, now, None), now))
            IN Res(r, Some(DualVersionedObj_removed(r.doc)))
      [] Kind(obj) = "Updated" ->
            LET r1 == UpdateGuard_update(c, o, Cur(obj),
                        DualVersionedValue_remove(
                            DualVersionedValue_activate(Cur(obj).value, now,
                                Act(obj).value.version.active), now))
                r2 == UpdateGuard_remove(r1, o, Act(obj),
                        DualVersionedValue_activate_remove(Act(obj).value, now))
            IN Res(r2, Some(DualVersionedObj_removed(r1.doc)))
      [] Kind(obj) = "Removed" ->
            Res(UpdateGuard_remove(c, o, Act(obj),
                    DualVersionedValue_activate_remove(Act(obj).value, now)), None)
      [] OTHER -> Res(c, obj)

\* DualVersionedUpdate::InsertActivate(value)
Commit_InsertActivate(obj, value, now, c, o) ==
    CASE Kind(obj) = "Created" ->
            LET r == IF Committed(obj)
                     THEN UpdateGuard_replace(c, o, Cur(obj),
                            DualVersionedValue_remove(Cur(obj).value, now),
                            DualVersionedValue_activate(
                                DualVersionedValue_update(Cur(obj).value, now, value, TRUE),
                                now, None))
                     ELSE UpdateGuard_update(c, o, Cur(obj),
                            DualVersionedValue_activate(
                                DualVersionedValue_update_uncommitted(Cur(obj).value, now, value, TRUE),
                                now, None))
            IN Res(r, Some(DualVersionedObj_activated(r.doc)))
      [] Kind(obj) = "Updated" ->
            LET prev_active == Act(obj).value.version.active
                r1 == IF Committed(obj)
                      THEN UpdateGuard_replace(c, o, Cur(obj),
                            DualVersionedValue_remove(Cur(obj).value, now),
                            DualVersionedValue_activate(
                                DualVersionedValue_update(Cur(obj).value, now, value, TRUE),
                                now, prev_active))
                      ELSE UpdateGuard_update(c, o, Cur(obj),
                            DualVersionedValue_activate(
                                DualVersionedValue_update_uncommitted(Cur(obj).value, now, value, TRUE),
                                now, prev_active))
                r2 == UpdateGuard_remove(r1, o, Act(obj),
                        DualVersionedValue_activate_remove(Act(obj).value, now))
            IN Res(r2, Some(DualVersionedObj_activated(r1.doc)))
      [] Kind(obj) \in {"Removed", "Activated"} ->
            LET prev_active == Act(obj).value.version.active
                r == UpdateGuard_replace(c, o, Act(obj),
                        DualVersionedValue_activate_remove(Act(obj).value, now),
                        DualVersionedValue_activate(
                            DualVersionedValue_update(Act(obj).value, now, value, TRUE),
                            now, prev_active))
            IN Res(r, Some(DualVersionedObj_activated(r.doc)))
      [] OTHER ->
            LET r == UpdateGuard_create(c, o,
                        DualVersionedValue_activate(
                            DualVersionedValue_new(now, value, TRUE), now, None))
            IN Res(r, Some(DualVersionedObj_activated(r.doc)))

\* the closed active-side record built by the InsertActivate... tokens
ClosedActive(v, now, prev_active) ==
    DualVersionedValue_remove(DualVersionedValue_activate(v, now, prev_active), now)

\* DualVersionedUpdate::InsertActivateInsert(before, after, commit)
Commit_InsertActivateInsert(obj, before, after, commit, now, c, o) ==
    CASE Kind(obj) = "Created" ->
            IF Committed(obj)
            THEN LET r1 == UpdateGuard_remove(c, o, Cur(obj),
                              DualVersionedValue_remove(Cur(obj).value, now))
                     r2 == UpdateGuard_create(r1, o,
                              ClosedActive(DualVersionedValue_update(Cur(obj).value, now, before, TRUE),
                                           now, None))
                     r3 == UpdateGuard_create(r2, o,
                              DualVersionedValue_update(Cur(obj).value, now, after, commit))
                 IN Res(r3, Some(DualVersionedObj_updated(r2.doc, r3.doc, commit)))
            ELSE LET r == UpdateGuard_split(c, o, Cur(obj),
                              ClosedActive(DualVersionedValue_update_uncommitted(Cur(obj).value, now, before, TRUE),
                                           now, None),
                              DualVersionedValue_update(Cur(obj).value, now, after, commit))
                 IN Res(r, Some(DualVersionedObj_updated(r.prev, r.new, commit)))
      [] Kind(obj) = "Updated" ->
            LET prev_active == Act(obj).value.version.active
                r0 == UpdateGuard_remove(c, o, Act(obj),
                        DualVersionedValue_activate_remove(Act(obj).value, now))
            IN IF Committed(obj)
               THEN LET r1 == UpdateGuard_remove(r0, o, Cur(obj),
                                 DualVersionedValue_remove(Cur(obj).value, now))
                        r2 == UpdateGuard_create(r1, o,
                                 ClosedActive(DualVersionedValue_update(Cur(obj).value, now, before, TRUE),
                                              now, None))
                        r3 == UpdateGuard_create(r2, o,
                                 DualVersionedValue_update(Cur(obj).value, now, after, commit))
                    IN Res(r3, Some(DualVersionedObj_updated(r2.doc, r3.doc, commit)))
               ELSE LET r == UpdateGuard_split(r0, o, Cur(obj),
                                 ClosedActive(DualVersionedValue_update_uncommitted(Cur(obj).value, now, before, TRUE),
                                              now, prev_active),
                                 DualVersionedValue_update(Cur(obj).value, now, after, commit))
                    IN Res(r, Some(DualVersionedObj_updated(r.prev, r.new, commit)))
      [] Kind(obj) = "Removed" ->
            LET r1 == UpdateGuard_remove(c, o, Act(obj),
                        DualVersionedValue_activate_remove(Act(obj).value, now))
                r2 == UpdateGuard_create(r1, o,
                        ClosedActive(DualVersionedValue_new(now, before, TRUE), now, None))
                r3 == UpdateGuard_create(r2, o, DualVersionedValue_new(now, after, commit))
            IN Res(r3, Some(DualVersionedObj_updated(r2.doc, r3.doc, commit)))
      [] Kind(obj) = "Activated" ->
            LET prev_active == Act(obj).value.version.active
                r1 == UpdateGuard_remove(c, o, Act(obj),
                        DualVersionedValue_activate_remove(Act(obj).value, now))
                r2 == UpdateGuard_create(r1, o,
                        ClosedActive(DualVersionedValue_update(Act(obj).value, now, before, TRUE),
                                     now, prev_active))
                r3 == UpdateGuard_create(r2, o,
                        DualVersionedValue_update(Act(obj).value, now, after, commit))
            IN Res(r3, Some(DualVersionedObj_updated(r2.doc, r3.doc, commit)))
      [] OTHER ->
            LET r2 == UpdateGuard_create(c, o,
                        ClosedActive(DualVersionedValue_new(now, before, TRUE), now, None))
                r3 == UpdateGuard_create(r2, o, DualVersionedValue_new(now, after, commit))
            IN Res(r3, Some(DualVersionedObj_updated(r2.doc, r3.doc, commit)))

\* DualVersionedUpdate::InsertActivateRemove(value)
Commit_InsertActivateRemove(obj, value, now, c, o) ==
    CASE Kind(obj) = "Created" ->
            IF Committed(obj)
            THEN LET r1 == UpdateGuard_remove(c, o, Cur(obj),
                              DualVersionedValue_remove(Cur(obj).value, now))
                     r2 == UpdateGuard_create(r1, o,
                              ClosedActive(DualVersionedValue_update(Cur(obj).value, now, value, TRUE),
                                           now, None))
                 IN Res(r2, Some(DualVersionedObj_removed(r2.doc)))
            ELSE LET r == UpdateGuard_update(c, o, Cur(obj),
                              ClosedActive(DualVersionedValue_update_uncommitted(Cur(obj).value, now, value, TRUE),
                                           now, None))
                 IN Res(r, Some(DualVersionedObj_removed(r.doc)))
      [] Kind(obj) = "Updated" ->
            LET prev_active == Act(obj).value.version.active
                r0 == UpdateGuard_remove(c, o, Act(obj),
                        DualVersionedValue_activate_remove(Act(obj).value, now))
            IN IF Committed(obj)
               THEN LET r1 == UpdateGuard_remove(r0, o, Cur(obj),
                                 DualVersionedValue_remove(Cur(obj).value, now))
                        r2 == UpdateGuard_create(r1, o,
                                 ClosedActive(DualVersionedValue_update(Cur(obj).value, now, value, TRUE),
                                              now, prev_active))
                    IN Res(r2, Some(DualVersionedObj_removed(r2.doc)))
               ELSE LET r == UpdateGuard_update(r0, o, Cur(obj),
                                 ClosedActive(DualVersionedValue_update_uncommitted(Cur(obj).value, now, value, TRUE),
                                              now, prev_active))
                    IN Res(r, Some(DualVersionedObj_removed(r.doc)))
      [] Kind(obj) = "Removed" ->
            LET prev_active == Act(obj).value.version.active
                r1 == UpdateGuard_remove(c, o, Act(obj),
                        DualVersionedValue_activate_remove(Act(obj).value, now))
                r2 == UpdateGuard_create(r1, o,
                        ClosedActive(DualVersionedValue_new(now, value, TRUE), now, prev_active))
            IN Res(r2, Some(DualVersionedObj_removed(r2.doc)))
      [] Kind(obj) = "Activated" ->
            LET prev_active == Act(obj).value.version.active
                r1 == UpdateGuard_remove(c, o, Act(obj),
                        DualVersionedValue_activate_remove(
                            DualVersionedValue_remove(Act(obj).value, now), now))
                r2 == UpdateGuard_create(r1, o,
                        ClosedActive(DualVersionedValue_update(Act(obj).value, now, value, TRUE),
                                     now, prev_active))
            IN Res(r2, Some(DualVersionedObj_removed(r2.doc)))
      [] OTHER ->
            LET r == UpdateGuard_create(c, o,
                        ClosedActive(DualVersionedValue_new(now, value, TRUE), now, None))
            IN Res(r, Some(DualVersionedObj_removed(r.doc)))

\* DualVersionedUpdate::RemoveActivate
Commit_RemoveActivate(obj, now, c, o) ==
    CASE Kind(obj) = "Created" ->
            Res(UpdateGuard_remove(c, o, Cur(obj),
                    DualVersionedValue_remove(Cur(obj).value, now)), None)
      [] Kind(obj) = "Updated" ->
            LET r1 == UpdateGuard_remove(c, o, Act(obj),
                        DualVersionedValue_activate_remove(Act(obj).value, now))
                r2 == UpdateGuard_remove(r1, o, Cur(obj),
                        DualVersionedValue_remove(Cur(obj).value, now))
            IN Res(r2, None)
      [] Kind(obj) = "Removed" ->
            Res(UpdateGuard_remove(c, o, Act(obj),
                    DualVersionedValue_activate_remove(Act(obj).value, now)), None)
      [] Kind(obj) = "Activated" ->
            Res(UpdateGuard_remove(c, o, Act(obj),
                    DualVersionedValue_activate_remove(
                        DualVersionedValue_remove(Act(obj).value, now), now)), None)
      [] OTHER -> Res(c, None)

\* DualVersionedUpdate::RemoveActivateInsert(value, commit)
Commit_RemoveActivateInsert(obj, value, commit, now, c, o) ==
    LET r1 == CASE Kind(obj) = "Created" ->
                    UpdateGuard_remove(c, o, Cur(obj),
                        DualVersionedValue_remove(Cur(obj).value, now))
                [] Kind(obj) = "Updated" ->
                    UpdateGuard_remove(
                        UpdateGuard_remove(c, o, Cur(obj),
                            DualVersionedValue_activate_remove(
                                ClosedActive(Cur(obj).value, now,
                                             Act(obj).value.version.active), now)),
                        o, Act(obj),
                        DualVersionedValue_activate_remove(Act(obj).value, now))
                [] Kind(obj) = "Removed" ->
                    UpdateGuard_remove(c, o, Act(obj),
                        DualVersionedValue_activate_remove(Act(obj).value, now))
                [] Kind(obj) = "Activated" ->
                    UpdateGuard_remove(c, o, Act(obj),
                        DualVersionedValue_remove(
                            DualVersionedValue_activate_remove(
                                DualVersionedValue_remove(Act(obj).value, now), now), now))
                [] OTHER -> [u |-> c.u, n |-> c.n]
        r2 == UpdateGuard_create(r1, o, DualVersionedValue_new(now, value, commit))
    IN Res(r2, Some(DualVersionedObj_created(r2.doc, commit)))

\* the match on the token in DualVersionedTransaction::commit
DualCommitObj(obj, t, now, c, o) ==
    CASE t.tag = "Insert" -> Commit_Insert(obj, t.value, t.commit, now, c, o)
      [] t.tag = "Remove" -> Commit_Remove(obj, now, c, o)
      [] t.tag = "Activate" -> Commit_Activate(obj, now, c, o)
      [] t.tag = "ActivateInsert" -> Commit_ActivateInsert(obj, t.value, t.commit, now, c, o)
      [] t.tag = "ActivateRemove" -> Commit_ActivateRemove(obj, now, c, o)
      [] t.tag = "InsertActivate" -> Commit_InsertActivate(obj, t.before, now, c, o)
      [] t.tag = "InsertActivateInsert" ->
            Commit_InsertActivateInsert(obj, t.before, t.value, t.commit, now, c, o)
      [] t.tag = "InsertActivateRemove" -> Commit_InsertActivateRemove(obj, t.before, now, c, o)
      [] t.tag = "RemoveActivate" -> Commit_RemoveActivate(obj, now, c, o)
      [] OTHER -> Commit_RemoveActivateInsert(obj, t.value, t.commit, now, c, o)

\* DualVersionedTransaction::commit: the loop over the buffered tokens
RECURSIVE DualCommitAll(_, _, _, _, _)
DualCommitAll(d, upd, todo, now, c) ==
    IF todo = {} THEN [data |-> d, u |-> c.u, n |-> c.n]
    ELSE LET o == CHOOSE x \in todo : TRUE
         IN IF IsNone(upd[o])
            THEN DualCommitAll(d, upd, todo \ {o}, now, c)
            ELSE LET r == DualCommitObj(d[o], Unwrap(upd[o]), now, c, o)
                 IN DualCommitAll([d EXCEPT ![o] = r.obj], upd, todo \ {o}, now,
                                  [u |-> r.u, n |-> r.n])

DualVersionedTransaction_commit(d, upd, now, n) ==
    DualCommitAll(d, upd, Objects, now, [u |-> EmptyBatch, n |-> n])

(* ---------------- document store (external versioning) ---------------- *)

\* Index request of the document store: with version_type external the
\* write is accepted iff the document is absent or the supplied version is
\* strictly greater than the stored one (otherwise 409); with the store's
\* internal versioning every write is accepted and bumps the version.
StoreIndex(st, id, entry, version_type) ==
    IF version_type = "external"
    THEN IF id \notin DOMAIN st \/ entry.version > st[id].version
         THEN [store |-> [i \in (DOMAIN st) \cup {id} |->
                            IF i = id THEN entry ELSE st[i]],
               status |-> 200]
         ELSE [store |-> st, status |-> 409]
    ELSE [store |-> [i \in (DOMAIN st) \cup {id} |->
                        IF i = id
                        THEN [entry EXCEPT !.version =
                                IF id \in DOMAIN st THEN st[id].version + 1 ELSE 1]
                        ELSE st[i]],
          status |-> 200]

\* an index request that leaves the versioning to the store
update_object_internal(st, id, entry) == StoreIndex(st, id, entry, "internal").store

\* Database::update_object / one item of Database::bulk_update: an index
\* request with "version_type": "external"; a 409 counts as success.
update_object(st, id, entry) == StoreIndex(st, id, entry, "external").store

BatchRemove(b, id) == [i \in (DOMAIN b) \ {id} |-> b[i]]

(* ---------------- state ---------------- *)

VARIABLES
    store,      \* documents of the table in the document store
    nextId,     \* next unused ElasticId
    now,        \* timestamp of the transaction in progress
    phase,      \* "txn": a transaction may buffer edits; "flush": run() in progress
    dData,      \* DualVersionedData
    dUpdates,   \* DualVersionedTransaction.updates
    batch,      \* entries of the UpdateGuard not yet sent by run()
    lastBatch,  \* the UpdateGuard as the last commit returned it
    rpc,        \* the last config-object call and its result
    sData,      \* SingleVersionedData
    sUpdates,   \* SingleVersionedTransaction.updates
    pending,    \* UpdateGuards of single-timeline calls whose run() is in progress
    force_update, \* mapping.table.force_update of the single-timeline table
    tables,     \* State.0: table id -> Option<slot>
    slots,      \* the Arc<AsyncRwLock<TableState>> allocated so far
    schemas,    \* live records of the self-schemas table's in-memory data
    writers,    \* the tasks that call register_table / unregister_table
    readers,    \* the tasks that call read_table
    calls,      \* number of register_table / unregister_table calls started
    bulk,       \* the last write call to the document store and its result
    vdocs,      \* the documents of the verified table, in the order of the scan
    worker,     \* the task spawned by verify_table_data_start
    sent,       \* every message the worker has sent into the channel so far
    recvd,      \* number of messages verify_table_data_next has taken out
    poll,       \* the last verify_table_data_next call and its result
    vlock,      \* the AsyncRwLock of the verified table: who holds it
    conn,       \* handle_conn: where it is, eof, whether rx is closed
    term,       \* the termination signal (watch channel)
    reqs,       \* the requests received on the connection and what became of them
    queue,      \* responses sent by handlers and not yet taken by rx.recv()
    written,    \* responses written to the connection, in order
    wait,       \* wait_for_database: where it is, the time it has taken, its result
    alg,        \* a token under construction, its base and the reference state
    api,        \* the API calls of the tasks: position, operations, timestamp, batch
    dlock       \* the holder of the table's data write lock, if any

sharedVars == << store, nextId, now >>

dualVars == << phase, dData, dUpdates, batch, lastBatch, rpc >>

singleVars == << sData, sUpdates, pending, force_update >>

regVars == << tables, slots, schemas, writers, readers, calls >>

verifyVars == << vdocs, worker, sent, recvd, poll, vlock >>

connVars == << conn, term, reqs, queue, written >>

callVars == << api, dlock >>

miscVars == << wait, alg, callVars >>

extVars == << bulk, verifyVars, connVars, miscVars >>

vars == << sharedVars, dualVars, singleVars, regVars, extVars >>

NoUpdates == [o \in Objects |-> None]

\* no config-object call has returned yet
NoCall == [op |-> "", object_id |-> "", res |-> "", at |-> 0]

\* a commit creates at most three documents per object
ElasticIds == 1 .. (3 * MaxTime * Cardinality(Objects))

\* the parts of the state a specification does not use stay as constructed
DualIdle ==
    /\ phase = "txn"
    /\ dData = [o \in Objects |-> None]
    /\ dUpdates = NoUpdates
    /\ batch = EmptyBatch
    /\ lastBatch = EmptyBatch
    /\ rpc = NoCall

SingleIdle ==
    /\ sData = [o \in Objects |-> None]
    /\ sUpdates = NoUpdates
    /\ pending = {}
    /\ force_update = FALSE

RegIdle ==
    /\ tables = << >>
    /\ slots = << >>
    /\ schemas = << >>
    /\ writers = << >>
    /\ readers = << >>
    /\ calls = 0

\* no write call to the document store has returned yet
NoBulk == [op |-> "", errors |-> FALSE, items |-> << >>, res |-> ""]

\* no verify_table_data_next call has returned yet
NoPoll == [id |-> "", res |-> "", msgs |-> None]

VerifyIdle ==
    /\ vdocs = << >>
    /\ worker = << >>
    /\ sent = << >>
    /\ recvd = 0
    /\ poll = NoPoll
    /\ vlock = << >>

CallIdle ==
    /\ api = << >>
    /\ dlock = << >>

MiscIdle ==
    /\ wait = << >>
    /\ alg = << >>
    /\ CallIdle

ConnIdle ==
    /\ conn = << >>
    /\ term = ""
    /\ reqs = << >>
    /\ queue = << >>
    /\ written = << >>

ExtIdle ==
    /\ bulk = NoBulk
    /\ MiscIdle
    /\ VerifyIdle
    /\ ConnIdle

\* the state shared by all specifications, as constructed
SharedIdle ==
    /\ store = << >>
    /\ nextId = 1
    /\ now = 1

(* ---------------- dual-timeline transactions ---------------- *)

InitDual ==
    /\ store = << >>
    /\ nextId = 1
    /\ now = 1
    /\ phase = "txn"
    /\ dData = [o \in Objects |-> None]
    /\ dUpdates = NoUpdates
    /\ batch = EmptyBatch
    /\ lastBatch = EmptyBatch
    /\ rpc = NoCall
    /\ SingleIdle
    /\ RegIdle
    /\ ExtIdle

InTxn == phase = "txn" /\ now <= MaxTime

\* DualVersionedTransaction::insert
DInsert(o, v, c) ==
    /\ InTxn
    /\ dUpdates' = DualVersionedTransaction_insert(dUpdates, o, v, c)
    /\ UNCHANGED << store, nextId, now, phase, dData, batch, lastBatch, rpc, singleVars, regVars, extVars >>

\* DualVersionedTransaction::create
DCreate(o, v, c) ==
    /\ InTxn
    /\ dUpdates' = DualVersionedTransaction_create(dData, dUpdates, o, v, c)
    /\ UNCHANGED << store, nextId, now, phase, dData, batch, lastBatch, rpc, singleVars, regVars, extVars >>

\* DualVersionedTransaction::update
DUpdate(o, v, c) ==
    /\ InTxn
    /\ dUpdates' = DualVersionedTransaction_update(dData, dUpdates, o, v, c)
    /\ UNCHANGED << store, nextId, now, phase, dData, batch, lastBatch, rpc, singleVars, regVars, extVars >>

\* DualVersionedTransaction::remove
DRemove(o) ==
    /\ InTxn
    /\ dUpdates' = DualVersionedTransaction_remove(dData, dUpdates, o)
    /\ UNCHANGED << store, nextId, now, phase, dData, batch, lastBatch, rpc, singleVars, regVars, extVars >>

\* DualVersionedTransaction::activate
DActivate(o) ==
    /\ InTxn
    /\ dUpdates' = DualVersionedTransaction_activate(dData, dUpdates, o)
    /\ UNCHANGED << store, nextId, now, phase, dData, batch, lastBatch, rpc, singleVars, regVars, extVars >>

\* DataWriteGuard::commit: the transaction is consumed, the data lock is
\* released and the UpdateGuard is returned; run() of an empty batch sends
\* nothing.
DCommit ==
    /\ InTxn
    /\ LET r == DualVersionedTransaction_commit(dData, dUpdates, now, nextId)
       IN /\ dData' = r.data
          /\ nextId' = r.n
          /\ batch' = r.u
          /\ lastBatch' = r.u
          /\ IF DOMAIN r.u = {}
             THEN phase' = "txn" /\ now' = now + 1
             ELSE phase' = "flush" /\ now' = now
    /\ dUpdates' = NoUpdates
    /\ UNCHANGED << store, rpc, singleVars, regVars, extVars >>

\* UpdateGuard::run: the entries reach the store one by one, in any order
DFlush(id) ==
    /\ phase = "flush"
    /\ id \in DOMAIN batch
    /\ store' = update_object(store, id, batch[id])
    /\ batch' = BatchRemove(batch, id)
    /\ IF DOMAIN batch = {id}
       THEN phase' = "txn" /\ now' = now + 1
       ELSE phase' = "flush" /\ now' = now
    /\ UNCHANGED << nextId, dData, dUpdates, lastBatch, rpc, singleVars, regVars, extVars >>

\* DbDaemon::create_config_object_with_id: a transaction of its own; when
\* create returns false the call returns ObjectIdAlreadyExists and the
\* transaction is dropped, otherwise it is committed and the batch is run
CreateConfigObjectWithId(o, v, c) ==
    /\ InTxn
    /\ dUpdates = NoUpdates
    /\ IF DualVersionedTransaction_create_ret(dData, dUpdates, o)
       THEN LET r == DualVersionedTransaction_commit(dData,
                        DualVersionedTransaction_create(dData, dUpdates, o, v, c),
                        now, nextId)
            IN /\ dData' = r.data
               /\ nextId' = r.n
               /\ batch' = r.u
               /\ lastBatch' = r.u
               /\ IF DOMAIN r.u = {}
                  THEN phase' = "txn" /\ now' = now + 1
                  ELSE phase' = "flush" /\ now' = now
               /\ rpc' = [op |-> "create_config_object_with_id", object_id |-> o,
                          res |-> "Ok", at |-> now]
       ELSE /\ rpc' = [op |-> "create_config_object_with_id", object_id |-> o,
                       res |-> "ObjectIdAlreadyExists", at |-> now]
            /\ UNCHANGED << nextId, now, phase, dData, batch, lastBatch >>
    /\ UNCHANGED << store, dUpdates, singleVars, regVars, extVars >>

NextDual ==
    \/ \E o \in Objects, v \in Values, c \in BOOLEAN : DInsert(o, v, c)
    \/ \E o \in Objects, v \in Values, c \in BOOLEAN : DCreate(o, v, c)
    \/ \E o \in Objects, v \in Values, c \in BOOLEAN : DUpdate(o, v, c)
    \/ \E o \in Objects : DRemove(o)
    \/ \E o \in Objects : DActivate(o)
    \/ DCommit
    \/ \E id \in ElasticIds : DFlush(id)
    \/ \E o \in Objects, v \in Values, c \in BOOLEAN : CreateConfigObjectWithId(o, v, c)

SpecDual == InitDual /\ [][NextDual]_vars

Quiescent == phase = "txn" /\ dUpdates = NoUpdates

StoredOf(o) == {id \in DOMAIN store : store[id].object_id = o}

CurrentLive(o) ==
    {id \in StoredOf(o) : IsNone(store[id].value.version.current.to)}

ActiveLive(o) ==
    {id \in StoredOf(o) : /\ IsSome(store[id].value.version.active)
                          /\ IsNone(Unwrap(store[id].value.version.active).to)}

\* C1: after any sequence of edits and commits, with every batch flushed,
\* each object has at most one stored record whose current anchor is open
\* and at most one whose active anchor is open
DualUniqueness ==
    Quiescent => \A o \in Objects : /\ Cardinality(CurrentLive(o)) <= 1
                                    /\ Cardinality(ActiveLive(o)) <= 1

\* anchors compared by (from, to, id), an open anchor last
AnchorLeq(a, ia, b, ib) ==
    \/ a.from < b.from
    \/ /\ a.from = b.from
       /\ \/ IsSome(a.to) /\ IsNone(b.to)
          \/ IsSome(a.to) /\ IsSome(b.to) /\ Unwrap(a.to) < Unwrap(b.to)
          \/ a.to = b.to /\ ia <= ib

\* the anchors anc[id], id \in S, sorted by from, form a chain: every
\* anchor but the last is closed where the next one starts
RECURSIVE IsChain(_, _)
IsChain(anc, S) ==
    IF S = {} THEN TRUE
    ELSE LET a == CHOOSE x \in S : \A y \in S : AnchorLeq(anc[x], x, anc[y], y)
             rest == S \ {a}
         IN IF rest = {} THEN TRUE
            ELSE LET b == CHOOSE x \in rest :
                            \A y \in rest : AnchorLeq(anc[x], x, anc[y], y)
                 IN /\ IsSome(anc[a].to)
                    /\ Unwrap(anc[a].to) = anc[b].from
                    /\ IsChain(anc, rest)

CurrentAnchors == [id \in DOMAIN store |-> store[id].value.version.current]

WithActive(o) == {id \in StoredOf(o) : IsSome(store[id].value.version.active)}

ActiveAnchors ==
    [id \in {i \in DOMAIN store : IsSome(store[i].value.version.active)} |->
        Unwrap(store[id].value.version.active)]

\* C2: after any sequence of commits, the current anchors of an object's
\* stored records, ordered by from, form a chain in which each record is
\* closed exactly where the next one starts, and so do its active anchors
Continuity ==
    Quiescent => \A o \in Objects : /\ IsChain(CurrentAnchors, StoredOf(o))
                                    /\ IsChain(ActiveAnchors, WithActive(o))

\* a commit leaves the payload of every stored committed record as it is
CommittedImmutabilityStep ==
    \A id \in (DOMAIN store) \cap (DOMAIN batch') :
        IsSome(store[id].value.version.committed)
            => batch'[id].value.value = store[id].value.value

\* C3: no commit changes the payload of a record that is stored with a
\* committed timestamp (also not ActivateInsert on an Activated object)
CommittedImmutability == [][CommittedImmutabilityStep]_vars

\* the orders in which the entries of a batch can be sent
Orders(S) ==
    {f \in [1 .. Cardinality(S) -> S] : \A i, j \in DOMAIN f : f[i] = f[j] => i = j}

\* the entries of batch b are sent with update_object in the order seq
RECURSIVE ApplyBatch(_, _, _)
ApplyBatch(st, b, seq) ==
    IF seq = << >> THEN st
    ELSE ApplyBatch(update_object(st, Head(seq), b[Head(seq)]), b, Tail(seq))

\* C5: sending the batch of a commit to the store a second time leaves the
\* store as the first application left it, and the store after the first
\* application does not depend on the order of the entries
IdempotentReplay ==
    LET once == ApplyBatch(store, lastBatch,
                           CHOOSE p \in Orders(DOMAIN lastBatch) : TRUE)
    IN \A p \in Orders(DOMAIN lastBatch) :
            /\ ApplyBatch(store, lastBatch, p) = once
            /\ ApplyBatch(once, lastBatch, p) = once

\* the batch of the last commit, of two entries or more, one of them a new
\* version of a stored document, has reached the store
IdempotentReplay_Witness ==
    /\ phase = "txn"
    /\ Cardinality(DOMAIN lastBatch) >= 2
    /\ \A id \in DOMAIN lastBatch : store[id] = lastBatch[id]
    /\ \E id \in DOMAIN lastBatch : lastBatch[id].version >= 1

\* C11: create_config_object_with_id on an object that is visible on the
\* current timeline returns ObjectIdAlreadyExists, emits no write and leaves
\* the object unchanged
CreateExistingFails ==
    [][(rpc' # rpc /\ rpc'.op = "create_config_object_with_id"
            /\ IsSome(DualVersionedData_get_current(dData, rpc'.object_id)))
        => /\ rpc'.res = "ObjectIdAlreadyExists"
           /\ lastBatch' = lastBatch
           /\ batch' = batch
           /\ dData' = dData]_vars

(* ---------------- single_versioned_data.rs ---------------- *)
\* A buffered edit is None (no entry), Some(Some(v)) (upsert) or
\* Some(None) (delete).

\* SingleVersionedTransaction::create
SingleVersionedTransaction_create(d, upd, o, value) ==
    IF IsNone(upd[o]) /\ IsNone(d[o])
    THEN [upd EXCEPT ![o] = Some(Some(value))]
    ELSE upd

\* SingleVersionedTransaction::update
SingleVersionedTransaction_update(d, upd, o, value) ==
    IF IsSome(upd[o]) \/ IsSome(d[o])
    THEN [upd EXCEPT ![o] = Some(Some(value))]
    ELSE upd

\* SingleVersionedTransaction::update: the value it returns
SingleVersionedTransaction_update_ret(d, upd, o) ==
    IsSome(upd[o]) \/ IsSome(d[o])

\* SingleVersionedTransaction::insert
SingleVersionedTransaction_insert(upd, o, value) ==
    [upd EXCEPT ![o] = Some(Some(value))]

\* SingleVersionedTransaction::remove
SingleVersionedTransaction_remove(d, upd, o) ==
    IF \/ IsSome(upd[o]) /\ IsSome(Unwrap(upd[o]))
       \/ IsNone(upd[o]) /\ IsSome(d[o])
    THEN [upd EXCEPT ![o] = Some(None)]
    ELSE upd

\* a comparison that reports every pair of payloads as different
value_eq_never(a, b) == FALSE

\* DbSchema::value_eq on verified payloads
value_eq(a, b) == a = b

\* one arm of the match in SingleVersionedTransaction::commit
SingleCommitObj(ent, update, now_, force, c, o) ==
    CASE IsSome(ent) /\ IsSome(update)
            /\ (force \/ ~value_eq(Unwrap(ent).value.value, Unwrap(update))) ->
            LET r == UpdateGuard_replace(c, o, Unwrap(ent),
                        SingleVersionedValue_remove(Unwrap(ent).value, now_),
                        SingleVersionedValue_update(Unwrap(ent).value, now_, Unwrap(update)))
            IN Res(r, Some(r.doc))
      [] IsSome(ent) /\ IsNone(update) ->
            Res(UpdateGuard_remove(c, o, Unwrap(ent),
                    SingleVersionedValue_remove(Unwrap(ent).value, now_)), None)
      [] IsNone(ent) /\ IsSome(update) ->
            LET r == UpdateGuard_create(c, o, SingleVersionedValue_new(now_, Unwrap(update)))
            IN Res(r, Some(r.doc))
      [] OTHER -> Res(c, ent)

\* SingleVersionedTransaction::commit: the loop over the buffered edits
RECURSIVE SingleCommitAll(_, _, _, _, _, _)
SingleCommitAll(d, upd, todo, now_, force, c) ==
    IF todo = {} THEN [data |-> d, u |-> c.u, n |-> c.n]
    ELSE LET o == CHOOSE x \in todo : TRUE
         IN IF IsNone(upd[o])
            THEN SingleCommitAll(d, upd, todo \ {o}, now_, force, c)
            ELSE LET r == SingleCommitObj(d[o], Unwrap(upd[o]), now_, force, c, o)
                 IN SingleCommitAll([d EXCEPT ![o] = r.obj], upd, todo \ {o}, now_,
                                    force, [u |-> r.u, n |-> r.n])

SingleVersionedTransaction_commit(d, upd, now_, force, n) ==
    SingleCommitAll(d, upd, DOMAIN upd, now_, force, [u |-> EmptyBatch, n |-> n])

(* ---------------- single-timeline transactions ---------------- *)
\* Transactions are serialised by the table's data lock; each commit hands
\* its UpdateGuard to the caller, which runs it after the lock is released,
\* so the batches of different calls reach the store in any order.

InitSingle ==
    /\ store = << >>
    /\ nextId = 1
    /\ now = 1
    /\ DualIdle
    /\ sData = [o \in Objects |-> None]
    /\ sUpdates = NoUpdates
    /\ pending = {}
    /\ force_update \in BOOLEAN
    /\ RegIdle
    /\ ExtIdle

InSingleTxn == now <= MaxSingleTxns

SCreate(o, v) ==
    /\ InSingleTxn
    /\ sUpdates' = SingleVersionedTransaction_create(sData, sUpdates, o, v)
    /\ UNCHANGED << sharedVars, dualVars, sData, pending, force_update, regVars, extVars >>

SUpdate(o, v) ==
    /\ InSingleTxn
    /\ sUpdates' = SingleVersionedTransaction_update(sData, sUpdates, o, v)
    /\ UNCHANGED << sharedVars, dualVars, sData, pending, force_update, regVars, extVars >>

SInsert(o, v) ==
    /\ InSingleTxn
    /\ sUpdates' = SingleVersionedTransaction_insert(sUpdates, o, v)
    /\ UNCHANGED << sharedVars, dualVars, sData, pending, force_update, regVars, extVars >>

SRemove(o) ==
    /\ InSingleTxn
    /\ sUpdates' = SingleVersionedTransaction_remove(sData, sUpdates, o)
    /\ UNCHANGED << sharedVars, dualVars, sData, pending, force_update, regVars, extVars >>

\* DataWriteGuard::commit
SCommit ==
    /\ InSingleTxn
    /\ LET r == SingleVersionedTransaction_commit(sData, sUpdates, now, force_update, nextId)
       IN /\ sData' = r.data
          /\ nextId' = r.n
          /\ pending' = IF DOMAIN r.u = {} THEN pending ELSE pending \cup {r.u}
    /\ sUpdates' = NoUpdates
    /\ now' = now + 1
    /\ UNCHANGED << store, dualVars, force_update, regVars, extVars >>

\* UpdateGuard::run of one of the calls: one entry reaches the store
SFlush(id) ==
    /\ \E b \in pending :
        /\ id \in DOMAIN b
        /\ store' = update_object(store, id, b[id])
        /\ pending' = (pending \ {b}) \cup
                        (IF DOMAIN b = {id} THEN {} ELSE {BatchRemove(b, id)})
    /\ UNCHANGED << nextId, now, dualVars, sData, sUpdates, force_update, regVars, extVars >>

SingleIds == 1 .. (MaxSingleTxns * Cardinality(Objects))

NextSingle ==
    \/ \E o \in Objects, v \in Values : SCreate(o, v)
    \/ \E o \in Objects, v \in Values : SUpdate(o, v)
    \/ \E o \in Objects, v \in Values : SInsert(o, v)
    \/ \E o \in Objects : SRemove(o)
    \/ SCommit
    \/ \E id \in SingleIds : SFlush(id)

SpecSingle == InitSingle /\ [][NextSingle]_vars

SingleQuiescent == pending = {} /\ sUpdates = NoUpdates

SingleLive(o) ==
    {id \in StoredOf(o) : IsNone(store[id].value.version.to)}

\* C4: after any sequence of single-timeline commits whose batches have
\* reached the store in any order, an object has exactly one stored record
\* with an open anchor if it is present in memory, and that record is the
\* one held in memory; it has none if the object is absent
CurrentUniqueness ==
    SingleQuiescent =>
        \A o \in Objects :
            IF IsSome(sData[o])
            THEN /\ SingleLive(o) = {Unwrap(sData[o]).elastic_id}
                 /\ store[Unwrap(sData[o]).elastic_id].version = Unwrap(sData[o]).version
                 /\ store[Unwrap(sData[o]).elastic_id].value = Unwrap(sData[o]).value
            ELSE SingleLive(o) = {}

\* an object was replaced: a closed record and the open one are stored
CurrentUniqueness_Witness ==
    /\ SingleQuiescent
    /\ \E o \in Objects :
        /\ IsSome(sData[o])
        /\ Cardinality(StoredOf(o)) >= 2
        /\ \E id \in StoredOf(o) : IsSome(store[id].value.version.to)

\* the update batches a step hands to its caller
CommittedBatches == pending' \ pending

\* the transaction holds an upsert of o with the payload o has in memory
EqualUpsert(o) ==
    /\ IsSome(sUpdates[o])
    /\ IsSome(Unwrap(sUpdates[o]))
    /\ IsSome(sData[o])
    /\ Unwrap(sData[o]).value.value = Unwrap(Unwrap(sUpdates[o]))

\* the commit of an upsert of the live payload, for PayloadEqualitySkip
PayloadEqualitySkip_Step ==
    \A o \in Objects :
        (now' # now /\ EqualUpsert(o)) =>
            LET old == Unwrap(sData[o])
            IN IF ~force_update
               THEN /\ \A b \in CommittedBatches :
                        \A id \in DOMAIN b : b[id].object_id # o
                    /\ sData'[o] = sData[o]
               ELSE \E b \in CommittedBatches :
                        \E new \in (DOMAIN b) \ {old.elastic_id} :
                            /\ {id \in DOMAIN b : b[id].object_id = o}
                                    = {old.elastic_id, new}
                            /\ b[old.elastic_id].version = old.version + 1
                            /\ b[old.elastic_id].value.version.to = Some(now)
                            /\ b[new].version = 0
                            /\ IsNone(b[new].value.version.to)
                            /\ b[new].value.value = old.value.value
                            /\ sData'[o] = Some([elastic_id |-> new, version |-> 0,
                                                 value |-> b[new].value])

\* C12: with force_update false, committing an upsert whose payload equals
\* the live payload of the object emits no batch entry and leaves the
\* in-memory record as it is; with force_update true the same commit emits
\* the close of the old record and the insert of a new one
PayloadEqualitySkip == [][PayloadEqualitySkip_Step]_vars

\* in a table without force_update, an upsert of the payload an object
\* already has, stored and flushed, is buffered and about to be committed
PayloadEqualitySkip_Witness ==
    /\ ~force_update
    /\ now <= MaxSingleTxns
    /\ pending = {}
    /\ \E o \in Objects :
        /\ EqualUpsert(o)
        /\ Unwrap(sData[o]).elastic_id \in DOMAIN store

(* ---------------- table_state.rs / state.rs / table_write.rs ---------------- *)

SCHEMA_TABLE == "schemas"

\* the table id the register_table / unregister_table / read_table calls use
TableIds == {"t"}

\* table definitions (DbTable)
Defs == {"d1", "d2"}

Writers == {"w1", "w2"}

Readers == {"r1"}

\* TableState::Operational(oper_state) / TableState::NonOperational(marker),
\* inside its AsyncRwLock: rcount read guards are held, wqueue are the
\* tasks waiting in write().await (the lock is fair: first in, first out)
Slot(state, marker) ==
    [state |-> state, marker |-> marker, rcount |-> 0, wqueue |-> << >>]

\* TableOperationalState
OperState(def) == [table |-> def]

\* TableState::read without the NonOperational arm
TableState_read_ready(slot) ==
    [ok |-> TRUE, err |-> "", marker |-> ""]

\* TableState::read
TableState_read(slot) ==
    IF IsSome(slot.state)
    THEN [ok |-> TRUE, err |-> "", marker |-> ""]
    ELSE [ok |-> FALSE, err |-> "TableNotReady", marker |-> slot.marker]

\* TableState::take
TableState_take(slot, non_oper_state) ==
    IF IsSome(slot.state)
    THEN [ok |-> TRUE, state |-> slot.state, err |-> "", marker |-> "",
          slot |-> [slot EXCEPT !.state = None, !.marker = non_oper_state]]
    ELSE [ok |-> FALSE, state |-> None, err |-> "TableNotReady",
          marker |-> slot.marker, slot |-> slot]

\* State::insert: the entry is replaced by a new lock holding the state
State_insert(tb, sl, table_id, oper_state) ==
    [tables |-> [tb EXCEPT ![table_id] = Some(Len(sl) + 1)],
     slots |-> Append(sl, Slot(Some(oper_state), ""))]

\* State::remove
State_remove(tb, sl, table_id) ==
    [tables |-> [tb EXCEPT ![table_id] = None], slots |-> sl]

\* Drop for TableWriteGuard without the State::remove arm
TableWriteGuard_drop_kept(tb, sl, table_id, guard_state) ==
    IF IsSome(guard_state)
    THEN State_insert(tb, sl, table_id, Unwrap(guard_state))
    ELSE [tables |-> tb, slots |-> sl]

\* Drop for TableWriteGuard
TableWriteGuard_drop(tb, sl, table_id, guard_state) ==
    IF IsSome(guard_state)
    THEN State_insert(tb, sl, table_id, Unwrap(guard_state))
    ELSE State_remove(tb, sl, table_id)

\* the slot lookup-or-creation of State::write_table, under the registry lock
write_table_lookup(tb, sl, table_id, non_oper_state, create) ==
    IF IsSome(tb[table_id])
    THEN [tables |-> tb, slots |-> sl, table |-> tb[table_id]]
    ELSE IF create
         THEN [tables |-> [tb EXCEPT ![table_id] = Some(Len(sl) + 1)],
               slots |-> Append(sl, Slot(None, non_oper_state)),
               table |-> None]
         ELSE [tables |-> tb, slots |-> sl, table |-> None]

NoRes == [kind |-> "none", marker |-> ""]

ResOf(kind, marker) == [kind |-> kind, marker |-> marker]

IdleWriter ==
    [pc |-> "idle", op |-> "", def |-> "", t |-> "", arc |-> None,
     state |-> None, res |-> NoRes]

IdleReader == [pc |-> "idle", t |-> "", arc |-> None, res |-> NoRes]

SchemasSlot == Unwrap(tables[SCHEMA_TABLE])

MarkerOf(op) == IF op = "register" THEN "Registering" ELSE "Unregistering"

InitReg ==
    /\ store = << >>
    /\ nextId = 1
    /\ now = 1
    /\ DualIdle
    /\ SingleIdle
    /\ ExtIdle
    /\ \E registered \in SUBSET TableIds :
        /\ tables = [t \in {SCHEMA_TABLE} \cup TableIds |->
                        IF t = SCHEMA_TABLE THEN Some(1)
                        ELSE IF t \in registered THEN Some(2) ELSE None]
        /\ slots = IF registered = {}
                   THEN << Slot(Some(OperState(SCHEMA_TABLE)), "") >>
                   ELSE << Slot(Some(OperState(SCHEMA_TABLE)), ""),
                           Slot(Some(OperState("d1")), "") >>
        /\ schemas = [t \in TableIds |-> IF t \in registered THEN Some("d1") ELSE None]
    /\ writers = [w \in Writers |-> IdleWriter]
    /\ readers = [r \in Readers |-> IdleReader]
    /\ calls = 0

\* State::read_table, the registry lookup
R_lookup(r, t) ==
    /\ readers[r].pc = "idle"
    /\ IF IsSome(tables[t])
       THEN readers' = [readers EXCEPT ![r] =
                [pc |-> "wait", t |-> t, arc |-> tables[t], res |-> NoRes]]
       ELSE readers' = [readers EXCEPT ![r] =
                [pc |-> "idle", t |-> t, arc |-> None,
                 res |-> ResOf("TableNotFound", "")]]
    /\ UNCHANGED << extVars, sharedVars, dualVars, singleVars, tables, slots, schemas,
                    writers, calls >>

\* State::read_table, read_owned().await and TableState::read
R_acquire(r) ==
    /\ readers[r].pc = "wait"
    /\ LET s == Unwrap(readers[r].arc)
           rd == TableState_read(slots[s])
       IN /\ slots[s].wqueue = << >>
          /\ IF rd.ok
             THEN /\ slots' = [slots EXCEPT ![s].rcount = @ + 1]
                  /\ readers' = [readers EXCEPT ![r].pc = "held",
                                                ![r].res = ResOf("guard", "")]
             ELSE /\ slots' = slots
                  /\ readers' = [readers EXCEPT ![r].pc = "idle",
                                                ![r].arc = None,
                                                ![r].res = ResOf(rd.err, rd.marker)]
    /\ UNCHANGED << extVars, sharedVars, dualVars, singleVars, tables, schemas, writers, calls >>

\* the TableReadGuard is dropped
R_release(r) ==
    /\ readers[r].pc = "held"
    /\ slots' = [slots EXCEPT ![Unwrap(readers[r].arc)].rcount = @ - 1]
    /\ readers' = [readers EXCEPT ![r].pc = "idle", ![r].arc = None]
    /\ UNCHANGED << extVars, sharedVars, dualVars, singleVars, tables, schemas, writers, calls >>

\* State::write_table, the section under the registry write lock, entered
\* from register_table (create = true) or unregister_table (create = false)
W_lookup(w, op, t, def) ==
    /\ writers[w].pc = "idle"
    /\ calls < MaxCalls
    /\ LET r == write_table_lookup(tables, slots, t, MarkerOf(op), op = "register")
       IN /\ tables' = r.tables
          /\ slots' = r.slots
          /\ writers' = [writers EXCEPT ![w] =
                [pc |-> "schemas", op |-> op, def |-> def, t |-> t,
                 arc |-> r.table, state |-> None, res |-> NoRes]]
    /\ calls' = calls + 1
    /\ UNCHANGED << extVars, sharedVars, dualVars, singleVars, schemas, readers >>

\* State::write_table: the read guard on the self-schemas table is taken,
\* then write().await on the table's lock starts (or, without a slot, the
\* guard is returned at once)
W_schemas(w) ==
    /\ writers[w].pc = "schemas"
    /\ slots[SchemasSlot].wqueue = << >>
    /\ TableState_read(slots[SchemasSlot]).ok
    /\ IF IsSome(writers[w].arc)
       THEN /\ slots' = [slots EXCEPT ![SchemasSlot].rcount = @ + 1,
                                      ![Unwrap(writers[w].arc)].wqueue = Append(@, w)]
            /\ writers' = [writers EXCEPT ![w].pc = "write"]
       ELSE /\ slots' = [slots EXCEPT ![SchemasSlot].rcount = @ + 1]
            /\ writers' = [writers EXCEPT ![w].pc = "held"]
    /\ UNCHANGED << extVars, sharedVars, dualVars, singleVars, tables, schemas, readers, calls >>

\* State::write_table: the write lock is granted once the read guards are
\* gone, TableState::take runs and the lock is released again
W_take(w) ==
    /\ writers[w].pc = "write"
    /\ LET s == Unwrap(writers[w].arc)
           tk == TableState_take(slots[s], MarkerOf(writers[w].op))
       IN /\ slots[s].rcount = 0
          /\ Head(slots[s].wqueue) = w
          /\ IF tk.ok
             THEN /\ slots' = [slots EXCEPT ![s] = [tk.slot EXCEPT !.wqueue = Tail(@)]]
                  /\ writers' = [writers EXCEPT ![w].pc = "held",
                                                ![w].state = tk.state]
             ELSE /\ slots' = [slots EXCEPT ![s].wqueue = Tail(@),
                                            ![SchemasSlot].rcount = @ - 1]
                  /\ writers' = [writers EXCEPT ![w].pc = "idle",
                                                ![w].arc = None,
                                                ![w].res = ResOf(tk.err, tk.marker)]
    /\ UNCHANGED << extVars, sharedVars, dualVars, singleVars, tables, schemas, readers, calls >>

\* outcomes of the calls on the database backend (and of
\* DbTable::verify_compatibility, whose error is an early return as well)
Outcomes == {"ok", "err"}

\* register_table after write_table: the table is created or its mapping
\* updated, then the schema record is inserted into the self-schemas table
\* and committed
register_table_body(wr, sch, out) ==
    IF IsSome(wr.state) /\ Unwrap(wr.state).table = wr.def
    THEN [writer |-> [wr EXCEPT !.pc = "drop", !.res = ResOf("ok", "")],
          schemas |-> sch]
    ELSE IF out = "err"
    THEN [writer |-> [wr EXCEPT !.pc = "drop", !.res = ResOf("err", "")],
          schemas |-> sch]
    ELSE [writer |-> [wr EXCEPT !.pc = "run",
                                !.state = Some(OperState(wr.def))],
          schemas |-> [sch EXCEPT ![wr.t] = Some(wr.def)]]

\* unregister_table after write_table: the schema record is removed from the
\* self-schemas table and committed
unregister_table_body(wr, sch) ==
    IF IsSome(wr.state)
    THEN [writer |-> [wr EXCEPT !.pc = "run"],
          schemas |-> [sch EXCEPT ![wr.t] = None]]
    ELSE [writer |-> [wr EXCEPT !.pc = "drop", !.res = ResOf("ok", "")],
          schemas |-> sch]

\* register_table: updates.run(..).await? and the return
register_table_run(wr, out) ==
    [wr EXCEPT !.pc = "drop", !.res = ResOf(out, "")]

\* unregister_table: updates.run(..).await?, remove_table(..).await?,
\* table.remove() and the return
unregister_table_run(wr, out) ==
    IF out = "ok"
    THEN [wr EXCEPT !.pc = "drop", !.state = None, !.res = ResOf("ok", "")]
    ELSE [wr EXCEPT !.pc = "drop", !.res = ResOf("err", "")]

W_register_body(w) ==
    /\ writers[w].pc = "held"
    /\ writers[w].op = "register"
    /\ \E out \in Outcomes :
        LET r == register_table_body(writers[w], schemas, out)
        IN /\ writers' = [writers EXCEPT ![w] = r.writer]
           /\ schemas' = r.schemas
    /\ UNCHANGED << extVars, sharedVars, dualVars, singleVars, tables, slots, readers, calls >>

W_unregister_body(w) ==
    /\ writers[w].pc = "held"
    /\ writers[w].op = "unregister"
    /\ LET r == unregister_table_body(writers[w], schemas)
       IN /\ writers' = [writers EXCEPT ![w] = r.writer]
          /\ schemas' = r.schemas
    /\ UNCHANGED << extVars, sharedVars, dualVars, singleVars, tables, slots, readers, calls >>

W_register_run(w) ==
    /\ writers[w].pc = "run"
    /\ writers[w].op = "register"
    /\ \E out \in Outcomes :
        writers' = [writers EXCEPT ![w] = register_table_run(writers[w], out)]
    /\ UNCHANGED << extVars, sharedVars, dualVars, singleVars, tables, slots, schemas,
                    readers, calls >>

W_unregister_run(w) ==
    /\ writers[w].pc = "run"
    /\ writers[w].op = "unregister"
    /\ \E out \in Outcomes :
        writers' = [writers EXCEPT ![w] = unregister_table_run(writers[w], out)]
    /\ UNCHANGED << extVars, sharedVars, dualVars, singleVars, tables, slots, schemas,
                    readers, calls >>

\* the guards returned by write_table go out of scope: Drop for
\* TableWriteGuard, then the read guard on the self-schemas table
W_drop(w) ==
    /\ writers[w].pc = "drop"
    /\ LET r == TableWriteGuard_drop(tables, slots, writers[w].t, writers[w].state)
       IN /\ tables' = r.tables
          /\ slots' = [r.slots EXCEPT ![SchemasSlot].rcount = @ - 1]
    /\ writers' = [writers EXCEPT ![w].pc = "idle", ![w].arc = None,
                                  ![w].state = None]
    /\ UNCHANGED << extVars, sharedVars, dualVars, singleVars, schemas, readers, calls >>

NextReg ==
    \/ \E r \in Readers, t \in TableIds : R_lookup(r, t)
    \/ \E r \in Readers : R_acquire(r)
    \/ \E r \in Readers : R_release(r)
    \/ \E w \in Writers, op \in {"register", "unregister"}, t \in TableIds, def \in Defs :
            W_lookup(w, op, t, def)
    \/ \E w \in Writers : W_schemas(w)
    \/ \E w \in Writers : W_take(w)
    \/ \E w \in Writers : W_register_body(w)
    \/ \E w \in Writers : W_unregister_body(w)
    \/ \E w \in Writers : W_register_run(w)
    \/ \E w \in Writers : W_unregister_run(w)
    \/ \E w \in Writers : W_drop(w)

SpecReg == InitReg /\ [][NextReg]_vars

HoldsWriteGuard(w) == writers[w].pc \in {"held", "run", "drop"}

\* a step of the tasks, for NoReadWhileWriting
NoReadWhileWriting_Step ==
    \A r \in Readers :
        (readers[r].pc # "held" /\ readers'[r].pc = "held") =>
            ~ \E w \in Writers :
                HoldsWriteGuard(w) /\ writers[w].t = readers'[r].t

\* C6: while a write guard for a table is held, no read_table call on that
\* table is granted a read guard
NoReadWhileWriting == [][NoReadWhileWriting_Step]_vars

\* a step of the tasks, for WritersDrainReaders
WritersDrainReaders_Step ==
    \A w \in Writers :
        (writers[w].pc = "write" /\ writers'[w].pc = "held") =>
            ~ \E r \in Readers :
                readers[r].pc = "held" /\ readers[r].t = writers[w].t

\* C7: at the moment write_table takes the operational state of a table and
\* returns the write guard, no read guard on that table is held any more
WritersDrainReaders == [][WritersDrainReaders_Step]_vars

\* a step of the tasks, for ReadTableOutcome
ReadTableOutcome_Step ==
    \A r \in Readers :
        /\ (readers[r].pc = "idle" /\ readers'[r] # readers[r]) =>
                IF IsNone(tables[readers'[r].t])
                THEN /\ readers'[r].pc = "idle"
                     /\ readers'[r].res = ResOf("TableNotFound", "")
                ELSE /\ readers'[r].pc = "wait"
                     /\ readers'[r].arc = tables[readers'[r].t]
                     /\ readers'[r].res = NoRes
        /\ (readers[r].pc = "wait" /\ readers'[r] # readers[r]) =>
                LET slot == slots[Unwrap(readers[r].arc)]
                IN IF IsSome(slot.state)
                   THEN /\ readers'[r].pc = "held"
                        /\ readers'[r].res = ResOf("guard", "")
                   ELSE /\ readers'[r].pc = "idle"
                        /\ slot.marker \in {"Registering", "Unregistering"}
                        /\ readers'[r].res = ResOf("TableNotReady", slot.marker)
        /\ readers'[r].pc = "held" => IsSome(slots'[Unwrap(readers'[r].arc)].state)

\* C8: read_table(T) fails with TableNotFound when the registry has no entry
\* for T, fails with TableNotReady carrying the marker of the slot it found
\* when that slot is non-operational, and returns a read guard only when
\* that slot is operational
ReadTableOutcome == [][ReadTableOutcome_Step]_vars

\* a read_table call was refused with the marker of an unregistration in
\* progress
ReadTableOutcome_Witness ==
    \E r \in Readers, w \in Writers :
        /\ readers[r].res = ResOf("TableNotReady", "Unregistering")
        /\ HoldsWriteGuard(w)
        /\ writers[w].op = "unregister"
        /\ IsSome(writers[w].state)

\* a step of the tasks, for WriteGuardDrop
WriteGuardDrop_Step ==
    \A w \in Writers :
        (writers[w].pc = "drop" /\ writers'[w].pc = "idle") =>
            LET t == writers[w].t
            IN IF IsSome(writers[w].state)
               THEN /\ IsSome(tables'[t])
                    /\ slots'[Unwrap(tables'[t])].state = writers[w].state
                    /\ slots'[Unwrap(tables'[t])].wqueue = << >>
               ELSE IsNone(tables'[t])

\* C9: when a write guard for T is dropped, T's registry entry is
\* operational with the state the guard holds if it holds one, and T is
\* absent from the registry if it holds none; T is not left under a
\* non-operational marker, also after an early return with an error
WriteGuardDrop == [][WriteGuardDrop_Step]_vars

\* a register_table call whose load failed has returned its error and
\* dropped its guard, which held no state
WriteGuardDrop_Witness ==
    \E w \in Writers :
        /\ writers[w].pc = "idle"
        /\ writers[w].op = "register"
        /\ writers[w].res = ResOf("err", "")
        /\ IsNone(tables[writers[w].t])
        /\ Len(slots) >= 2

\* C10: once every register_table / unregister_table call has returned, T
\* is in the registry exactly if the self-schemas data holds a record for T
RegistryMatchesSchemas ==
    (\A w \in Writers : writers[w].pc = "idle") =>
        \A t \in TableIds : IsSome(tables[t]) <=> IsSome(schemas[t])

(* ---------------- writes to the document store ---------------- *)

MaxItems == 3

\* HTTP statuses of a write: updated, created, rejected, version conflict, failed
Statuses == {200, 201, 400, 409, 500}

\* is_success() of an HTTP status
is_success(status) == status >= 200 /\ status < 300

\* the body of the store's answer to _bulk: one item per operation, and
\* "errors" set when some item was not carried out
BulkReponse(statuses) ==
    [errors |-> \E i \in DOMAIN statuses : ~is_success(statuses[i]),
     items |-> statuses]

\* the closure |h| h.status() != 200 && h.status() != 409
ItemFailed(h) == h # 200 /\ h # 409

bulk_update(statuses) ==
    IF statuses # << >>
    THEN LET res == BulkReponse(statuses)
         IN IF res.errors /\ \E i \in DOMAIN res.items : ItemFailed(res.items[i])
            THEN IF \A i \in DOMAIN res.items : ItemFailed(res.items[i])
                 THEN "BulkUpdateComplete"
                 ELSE "BulkUpdatePartial"
            ELSE "Ok"
    ELSE "Ok"

update_object_result(status) ==
    IF is_success(status) THEN "Ok"
    ELSE IF status = 409 THEN "Ok"
    ELSE "EsError"

InitBulk ==
    /\ SharedIdle
    /\ DualIdle
    /\ SingleIdle
    /\ RegIdle
    /\ bulk = NoBulk
    /\ MiscIdle
    /\ VerifyIdle
    /\ ConnIdle

BulkUpdate(statuses) ==
    /\ bulk' = [op |-> "bulk_update",
                errors |-> BulkReponse(statuses).errors,
                items |-> statuses,
                res |-> bulk_update(statuses)]
    /\ UNCHANGED << sharedVars, dualVars, singleVars, regVars, miscVars, verifyVars, connVars >>

UpdateObject(status) ==
    /\ bulk' = [op |-> "update_object",
                errors |-> ~is_success(status),
                items |-> << status >>,
                res |-> update_object_result(status)]
    /\ UNCHANGED << sharedVars, dualVars, singleVars, regVars, miscVars, verifyVars, connVars >>

NextBulk ==
    \/ \E statuses \in UNION {[1 .. n -> Statuses] : n \in 0 .. MaxItems} : BulkUpdate(statuses)
    \/ \E status \in Statuses : UpdateObject(status)

SpecBulk == InitBulk /\ [][NextBulk]_vars

\* C13: bulk_update returns success exactly when every item status of the
\* response is 200 or 409, BulkUpdateComplete when no item status is 200 or
\* 409, and BulkUpdatePartial when some but not all are; update_object
\* returns success on a 409.
BulkStatusOutcome ==
    /\ (bulk.op = "bulk_update" /\ bulk.items # << >>) =>
        LET good == {i \in DOMAIN bulk.items : bulk.items[i] \in {200, 409}}
        IN /\ bulk.res = "Ok" <=> good = DOMAIN bulk.items
           /\ bulk.res = "BulkUpdateComplete" <=> good = {}
           /\ bulk.res = "BulkUpdatePartial" <=>
                (good # {} /\ good # DOMAIN bulk.items)
    /\ (bulk.op = "update_object" /\ bulk.items = << 409 >>) => bulk.res = "Ok"

(* ---------------- verification of persisted history ---------------- *)

MaxDocs == 3

\* capacity of the channel between the worker and verify_table_data_next
ChannelDepth == 2

BATCH_SIZE == 2

\* limit passed to query_objects_first
QueryLimit == 2

VObjects == {"o1", "o2"}

\* what the store can hold: elastic ids are positions in the sort order,
\* which is ascending in active.from
DocLists ==
    LET VTimes == {1, 2}
        Base == [object_id : VObjects, from : VTimes,
                 to : {None} \cup {Some(t) : t \in VTimes}]
        Scans == UNION {[1 .. n -> Base] : n \in 0 .. MaxDocs}
    IN {[i \in DOMAIN f |-> [object_id |-> f[i].object_id, elastic_id |-> i,
                             from |-> f[i].from, to |-> f[i].to]] :
            f \in {g \in Scans : \A i, j \in DOMAIN g : i <= j => g[i].from <= g[j].from}}

NoProblem == [object_id |-> "", prev_version_id |-> 0, cur_version_id |-> 0,
              prev_to |-> None, cur_from |-> 0]

VerificationMsg(kind, problem, n) == [kind |-> kind, problem |-> problem, n |-> n]

\* the comparisons of the scan loop with >= and <= for > and <
version_check_inclusive(prev_to, from) ==
    IF IsNone(prev_to) \/ Unwrap(prev_to) >= from THEN "Overlap"
    ELSE IF IsSome(prev_to) /\ Unwrap(prev_to) <= from THEN "Gap"
    ELSE ""

\* which message the scan loop sends for a record whose object was seen before
version_check(prev_to, from) ==
    IF IsNone(prev_to) \/ Unwrap(prev_to) > from THEN "Overlap"
    ELSE IF IsSome(prev_to) /\ Unwrap(prev_to) < from THEN "Gap"
    ELSE ""

IdleWorker ==
    [pc |-> "idle", docs |-> << >>, next |-> FALSE, limit |-> 0, pos |-> 0,
     n |-> 0, objects |-> [o \in VObjects |-> None], out |-> None]

\* the messages in the channel
Channel == SubSeq(sent, recvd + 1, Len(sent))

InitVerify ==
    /\ SharedIdle
    /\ DualIdle
    /\ SingleIdle
    /\ RegIdle
    /\ bulk = NoBulk
    /\ MiscIdle
    /\ ConnIdle
    /\ vdocs \in DocLists
    /\ worker = IdleWorker
    /\ sent = << >>
    /\ recvd = 0
    /\ poll = NoPoll
    /\ vlock = [reader |-> FALSE, writer |-> FALSE]

\* verify_table_data_start: read_table_owned, spawn, register the receiver
VStart ==
    /\ worker.pc = "idle"
    /\ ~vlock.writer
    /\ worker' = [worker EXCEPT !.pc = "query", !.limit = QueryLimit]
    /\ vlock' = [vlock EXCEPT !.reader = TRUE]
    /\ UNCHANGED << sharedVars, dualVars, singleVars, regVars, miscVars, connVars, bulk, vdocs, sent, recvd, poll >>

\* query_objects_first / query_objects_next under handle_err!: the store
\* fails, or answers with k records and a query state iff k > 0
VQuery(ok, k) ==
    /\ worker.pc = "query"
    /\ IsNone(worker.out)
    /\ IF ok
       THEN LET rest == Len(vdocs) - worker.pos
                size == IF worker.limit < rest THEN worker.limit ELSE rest
            IN /\ IF size = 0 THEN k = 0 ELSE k \in 1 .. size
               /\ worker' = [worker EXCEPT
                      !.pc = "scan",
                      !.docs = SubSeq(vdocs, worker.pos + 1, worker.pos + k),
                      !.next = (k > 0),
                      !.limit = worker.limit - k,
                      !.pos = worker.pos + k,
                      !.n = worker.n + k]
       ELSE /\ k = 0
            /\ worker' = [worker EXCEPT
                   !.pc = "ret",
                   !.out = Some(VerificationMsg("Error", NoProblem, 0))]
    /\ UNCHANGED << sharedVars, dualVars, singleVars, regVars, miscVars, connVars, bulk, vdocs, sent, recvd, poll, vlock >>

\* one round of `for (elastic_id, _version, doc) in docs`, or, with the batch
\* used up, the Progress message and the match on next
VScan ==
    /\ worker.pc = "scan"
    /\ IsNone(worker.out)
    /\ IF worker.docs = << >>
       THEN worker' = [worker EXCEPT
                !.pc = IF worker.next THEN "query" ELSE "ret",
                !.out = Some(VerificationMsg("Progress", NoProblem, worker.n))]
       ELSE LET doc == Head(worker.docs)
                ent == worker.objects[doc.object_id]
                kind == IF IsSome(ent) THEN version_check(Unwrap(ent).to, doc.from) ELSE ""
                version_problem ==
                    [object_id |-> doc.object_id,
                     prev_version_id |-> Unwrap(ent).id,
                     cur_version_id |-> doc.elastic_id,
                     prev_to |-> Unwrap(ent).to,
                     cur_from |-> doc.from]
            IN worker' = [worker EXCEPT
                   !.docs = Tail(worker.docs),
                   !.objects[doc.object_id] = Some([id |-> doc.elastic_id, to |-> doc.to]),
                   !.out = IF kind = "" THEN None
                           ELSE Some(VerificationMsg(kind, version_problem, 0))]
    /\ UNCHANGED << sharedVars, dualVars, singleVars, regVars, miscVars, connVars, bulk, vdocs, sent, recvd, poll, vlock >>

\* send_msg!: sender.send(msg).await completes when the channel has room;
\* after an Error, and after the Progress of the last batch, the task ends
\* and drops what it captured
VSend ==
    /\ IsSome(worker.out)
    /\ Len(Channel) < ChannelDepth
    /\ sent' = Append(sent, Unwrap(worker.out))
    /\ worker' = [worker EXCEPT !.out = None,
                                !.pc = IF worker.pc = "ret" THEN "done" ELSE worker.pc]
    /\ vlock' = [vlock EXCEPT !.reader = (worker.pc # "ret")]
    /\ UNCHANGED << sharedVars, dualVars, singleVars, regVars, miscVars, connVars, bulk, vdocs, recvd, poll >>

\* (n > 1).then_some(msgs)
verify_table_data_next_ret_short(n, msgs) == IF n > 1 THEN Some(msgs) ELSE None

\* (n > 0).then_some(msgs)
verify_table_data_next_ret(n, msgs) == IF n > 0 THEN Some(msgs) ELSE None

\* recv_many(&mut msgs, limit): the number of messages taken
recv_many(channel, limit) == IF Len(channel) < limit THEN Len(channel) ELSE limit

VNext(id) ==
    IF id = "v1" /\ worker.pc # "idle"
    THEN /\ Channel # << >> \/ worker.pc = "done"
         /\ LET n == recv_many(Channel, BATCH_SIZE)
            IN /\ poll' = [id |-> id, res |-> "Ok",
                           msgs |-> verify_table_data_next_ret(n, SubSeq(Channel, 1, n))]
               /\ recvd' = recvd + n
         /\ UNCHANGED << sharedVars, dualVars, singleVars, regVars, miscVars, connVars, bulk, vdocs, worker, sent, vlock >>
    ELSE /\ poll' = [id |-> id, res |-> "NoSuchVerificationWorker", msgs |-> None]
         /\ UNCHANGED << sharedVars, dualVars, singleVars, regVars, miscVars, connVars, bulk, vdocs, worker, sent, recvd, vlock >>

\* write_table on the verified table: state.write().await
VWrite ==
    /\ ~vlock.reader
    /\ ~vlock.writer
    /\ vlock' = [vlock EXCEPT !.writer = TRUE]
    /\ UNCHANGED << sharedVars, dualVars, singleVars, regVars, miscVars, connVars, bulk, vdocs, worker, sent, recvd, poll >>

VWriteDrop ==
    /\ vlock.writer
    /\ vlock' = [vlock EXCEPT !.writer = FALSE]
    /\ UNCHANGED << sharedVars, dualVars, singleVars, regVars, miscVars, connVars, bulk, vdocs, worker, sent, recvd, poll >>

NextVerify ==
    \/ VStart
    \/ \E ok \in BOOLEAN, k \in 0 .. QueryLimit : VQuery(ok, k)
    \/ VScan
    \/ VSend
    \/ \E id \in {"v1", "v2"} : VNext(id)
    \/ VWrite
    \/ VWriteDrop

SpecVerify == InitVerify /\ [][NextVerify]_vars

\* the Overlap and Gap messages sent or being sent, in order
Problems ==
    SelectSeq(sent \o worker.out, LAMBDA m : m.kind \in {"Overlap", "Gap"})

\* the records the scan loop has gone through
Scanned == SubSeq(vdocs, 1, worker.pos - Len(worker.docs))

\* position of the record before ds[j] with the same object id, 0 if none
PrevOf(ds, j) ==
    LET I == {i \in 1 .. (j - 1) : ds[i].object_id = ds[j].object_id}
    IN IF I = {} THEN 0 ELSE CHOOSE i \in I : \A h \in I : h <= i

ExpectedKind(ds, j) ==
    LET i == PrevOf(ds, j)
    IN IF i = 0 THEN ""
       ELSE IF ds[i].to = None THEN "Overlap"
       ELSE IF Unwrap(ds[i].to) > ds[j].from THEN "Overlap"
       ELSE IF Unwrap(ds[i].to) < ds[j].from THEN "Gap"
       ELSE ""

ExpectedProblems(ds) ==
    LET J == {j \in DOMAIN ds : ExpectedKind(ds, j) # ""}
        nth(k) == CHOOSE j \in J : Cardinality({i \in J : i <= j}) = k
    IN [k \in 1 .. Cardinality(J) |->
            LET j == nth(k)
                i == PrevOf(ds, j)
            IN [kind |-> ExpectedKind(ds, j),
                problem |-> [object_id |-> ds[j].object_id,
                             prev_version_id |-> ds[i].elastic_id,
                             cur_version_id |-> ds[j].elastic_id,
                             prev_to |-> ds[i].to,
                             cur_from |-> ds[j].from],
                n |-> 0]]

\* C14: for every scanned record that is not the first of its object id the
\* worker emits Overlap when the previous record's to is none or later than
\* the record's from, Gap when it is earlier, and nothing when they are
\* equal; after each record the remembered (document id, to) of the object
\* is that record's.
ScanMessages ==
    worker.pc # "idle" =>
        /\ Problems = ExpectedProblems(Scanned)
        /\ \A o \in VObjects :
            LET I == {i \in DOMAIN Scanned : Scanned[i].object_id = o}
            IN IF I = {} THEN worker.objects[o] = None
               ELSE \E i \in I :
                    /\ \A h \in I : h <= i
                    /\ worker.objects[o] =
                         Some([id |-> Scanned[i].elastic_id, to |-> Scanned[i].to])

ScanMessages_Witness ==
    /\ worker.pc = "done"
    /\ Len(Scanned) = QueryLimit
    /\ \E i \in DOMAIN sent : sent[i].kind = "Gap"

\* C15: when all n records of a verification arrive in one batch, the
\* messages are the Overlap and Gap messages in scan order, then exactly one
\* Progress(n), then the end of the stream.
SingleBatchStream ==
    (/\ worker.pc = "done"
     /\ \A i \in DOMAIN sent : sent[i].kind # "Error"
     /\ \A i \in DOMAIN sent : sent[i].kind = "Progress" => sent[i].n = worker.n)
        => sent = ExpectedProblems(Scanned)
                    \o << [kind |-> "Progress", problem |-> NoProblem, n |-> worker.n] >>

\* C17: an Error message does not end the stream: once the worker has
\* finished, every Error message is followed by a Progress message.
ErrorKeepsStream ==
    worker.pc = "done" =>
        \A i \in DOMAIN sent :
            sent[i].kind = "Error" =>
                \E j \in DOMAIN sent : j > i /\ sent[j].kind = "Progress"

\* C18: a running verification worker holds no read guard on its table, so
\* write_table on that table can take the lock even when the channel is full.
WorkerHoldsNoGuard ==
    (worker.pc \notin {"idle", "done"} /\ ~vlock.writer) =>
        /\ ~vlock.reader
        /\ ENABLED VWrite

\* what a step that is a verify_table_data_next call must look like
VerifyNext_Step ==
    (poll' # poll \/ recvd' # recvd) =>
        IF poll'.id = "v1" /\ worker.pc # "idle"
        THEN /\ poll'.res = "Ok"
             /\ IF IsSome(poll'.msgs)
                THEN LET msgs == Unwrap(poll'.msgs)
                     IN /\ Len(msgs) \in 1 .. BATCH_SIZE
                        /\ recvd' = recvd + Len(msgs)
                        /\ msgs = SubSeq(sent, recvd + 1, recvd')
                ELSE /\ worker.pc = "done"
                     /\ recvd = Len(sent)
                     /\ recvd' = recvd
             /\ (poll.id = "v1" /\ poll.res = "Ok" /\ IsNone(poll.msgs))
                    => IsNone(poll'.msgs)
        ELSE /\ poll'.res = "NoSuchVerificationWorker"
             /\ recvd' = recvd

\* C16: verify_table_data_next returns between 1 and BATCH_SIZE messages per
\* call, in the order the worker sent them and each exactly once; it returns
\* none only after the worker has finished and every message was returned,
\* and then keeps returning none; an unknown id gives
\* NoSuchVerificationWorker.
VerifyNextDelivery == [][VerifyNext_Step]_vars

VerifyNextDelivery_Witness ==
    /\ poll.id = "v1"
    /\ IsSome(poll.msgs)
    /\ Len(Unwrap(poll.msgs)) = BATCH_SIZE
    /\ recvd > BATCH_SIZE

(* ---------------- one connection ---------------- *)

\* capacity of the response channel of a connection
QueueCapacity == 2

MaxRequests == 4

RequestIds == 1 .. MaxRequests

\* permits held by handlers plus responses waiting in the channel
SlotsTaken ==
    Cardinality({r \in RequestIds : reqs[r].st = "running"}) + Len(queue)

Response(req_id, response) == [req_id |-> req_id, response |-> response]

InitConn ==
    /\ SharedIdle
    /\ DualIdle
    /\ SingleIdle
    /\ RegIdle
    /\ bulk = NoBulk
    /\ MiscIdle
    /\ VerifyIdle
    /\ conn = [pc |-> "select", eof |-> FALSE, closed |-> FALSE, seen |-> FALSE,
               req |-> 0, broke |-> FALSE]
    /\ term = "false"
    /\ reqs = [r \in RequestIds |-> [st |-> "none", term |-> ""]]
    /\ queue = << >>
    /\ written = << >>

\* the sender of the termination signal sets it to true, or goes away
Signal(v) ==
    /\ term = "false"
    /\ term' = v
    /\ UNCHANGED << sharedVars, dualVars, singleVars, regVars, miscVars, bulk, verifyVars,
                    conn, reqs, queue, written >>

\* req = stream.recv(), if !eof: a request, the end of the input, or a
\* receive error
StreamRecv(what) ==
    /\ conn.pc = "select"
    /\ ~conn.eof
    /\ CASE what = "request" ->
              /\ \E r \in RequestIds :
                    /\ reqs[r].st = "none"
                    /\ \A q \in RequestIds : q < r => reqs[q].st # "none"
                    /\ conn' = [conn EXCEPT !.pc = "reserve", !.req = r]
                    /\ reqs' = [reqs EXCEPT ![r].st = "received"]
         [] what = "eof" ->
              /\ conn' = [conn EXCEPT !.closed = TRUE, !.eof = TRUE]
              /\ UNCHANGED reqs
         [] OTHER ->
              /\ conn' = [conn EXCEPT !.pc = "returned", !.broke = TRUE]
              /\ UNCHANGED reqs
    /\ UNCHANGED << sharedVars, dualVars, singleVars, regVars, miscVars, bulk, verifyVars,
                    term, queue, written >>

\* tx.clone().reserve_owned().await: Err when rx is closed, a permit when a
\* slot is free, and otherwise it waits
Reserve ==
    /\ conn.pc = "reserve"
    /\ IF conn.closed
       THEN /\ reqs' = [reqs EXCEPT ![conn.req].st = "refused"]
            /\ written' = Append(written, Response(conn.req, "shutdown in progress"))
       ELSE /\ SlotsTaken < QueueCapacity
            /\ reqs' = [reqs EXCEPT ![conn.req] = [st |-> "running", term |-> term]]
            /\ UNCHANGED written
    /\ conn' = [conn EXCEPT !.pc = "select", !.req = 0]
    /\ UNCHANGED << sharedVars, dualVars, singleVars, regVars, miscVars, bulk, verifyVars,
                    term, queue >>

\* handle_request: the handler finishes and sends with its permit
HandleRequest(r) ==
    /\ reqs[r].st = "running"
    /\ reqs' = [reqs EXCEPT ![r].st = "queued"]
    /\ queue' = Append(queue, Response(r, "Ok"))
    /\ UNCHANGED << sharedVars, dualVars, singleVars, regVars, miscVars, bulk, verifyVars,
                    conn, term, written >>

\* res = rx.recv(): a response to write, or None when rx is closed, empty
\* and no permit is out
RxRecv ==
    /\ conn.pc = "select"
    /\ IF queue # << >>
       THEN /\ written' = Append(written, Head(queue))
            /\ queue' = Tail(queue)
            /\ reqs' = [reqs EXCEPT ![Head(queue).req_id].st = "written"]
            /\ UNCHANGED conn
       ELSE /\ conn.closed
            /\ SlotsTaken = 0
            /\ conn' = [conn EXCEPT !.pc = "returned"]
            /\ UNCHANGED << reqs, queue, written >>
    /\ UNCHANGED << sharedVars, dualVars, singleVars, regVars, miscVars, bulk, verifyVars, term >>

\* r = term.changed(): rx.close() when the signal is true or its sender is gone
TermChanged ==
    /\ conn.pc = "select"
    /\ term # "false"
    /\ ~conn.seen
    /\ conn' = [conn EXCEPT !.closed = TRUE, !.seen = TRUE]
    /\ UNCHANGED << sharedVars, dualVars, singleVars, regVars, miscVars, bulk, verifyVars,
                    term, reqs, queue, written >>

NextConn ==
    \/ \E v \in {"true", "dropped"} : Signal(v)
    \/ \E what \in {"request", "eof", "error"} : StreamRecv(what)
    \/ Reserve
    \/ \E r \in RequestIds : HandleRequest(r)
    \/ RxRecv
    \/ TermChanged

SpecConn == InitConn /\ [][NextConn]_vars

\* C19: with the response channel of the connection full, handle_conn does
\* not wait: the request it has just received is answered at once, so a
\* connection with more outstanding requests than the channel holds never
\* comes to a halt.
FullQueueAnswered ==
    conn.pc = "reserve" => (conn.closed \/ SlotsTaken < QueueCapacity)

\* C20: after the termination signal is set to true, every request whose
\* handler was spawned has its response written before handle_conn returns,
\* no request is executed that arrived after the signal, and handle_conn is
\* not held up once the in-flight handlers have finished.
GracefulDrain ==
    /\ (conn.pc = "returned" /\ ~conn.broke) =>
            \A r \in RequestIds : reqs[r].st \notin {"running", "queued"}
    /\ \A r \in RequestIds :
            reqs[r].st \in {"running", "queued", "written"} => reqs[r].term # "true"
    /\ (/\ term = "true"
        /\ conn.pc = "reserve"
        /\ \A r \in RequestIds : reqs[r].st # "running")
            => (conn.closed \/ SlotsTaken < QueueCapacity)

(* ---------------- waiting for the document store ---------------- *)

\* seconds slept after a failed verify_database
RetrySleep == 5

\* seconds of the sleep that races with verify_database
WaitTimeout == 300

MaxElapsed == 320

\* seconds a verify_database call takes when it does answer in time
MaxAttemptTime == 2

InitWait ==
    /\ SharedIdle
    /\ DualIdle
    /\ SingleIdle
    /\ RegIdle
    /\ bulk = NoBulk
    /\ VerifyIdle
    /\ ConnIdle
    /\ wait = [pc |-> "loop", elapsed |-> 0, res |-> ""]
    /\ alg = << >>
    /\ CallIdle

\* one round of the loop of wait_for_database: the select between
\* verify_database and a fresh sleep(300), and the branch that is taken
WaitRound(outcome, d) ==
    /\ wait.pc = "loop"
    /\ wait.elapsed + d + RetrySleep <= MaxElapsed
    /\ CASE outcome = "Ok" ->
              wait' = [pc |-> "returned", elapsed |-> wait.elapsed + d, res |-> "Ok"]
         [] outcome = "Err" ->
              wait' = [wait EXCEPT !.elapsed = wait.elapsed + d + RetrySleep]
         [] OTHER ->
              /\ d = 0
              /\ wait.elapsed + WaitTimeout <= MaxElapsed
              /\ wait' = [pc |-> "returned", elapsed |-> wait.elapsed + WaitTimeout,
                          res |-> "Timeout"]
    /\ UNCHANGED << sharedVars, dualVars, singleVars, regVars, bulk, verifyVars, connVars, alg, callVars >>

NextWait ==
    \E outcome \in {"Ok", "Err", "Pending"}, d \in 0 .. MaxAttemptTime :
        WaitRound(outcome, d)

SpecWait == InitWait /\ [][NextWait]_vars

\* C21: when every verify_database attempt fails, wait_for_database does not
\* go on retrying: it is not still in its loop once the waiting period, one
\* more attempt and one more retry sleep have gone by.
WaitTimesOut ==
    wait.pc = "loop" => wait.elapsed <= WaitTimeout + MaxAttemptTime + RetrySleep

(* ---------------- dual-timeline tokens against the committed data ---------------- *)

\* what a step that commits buffered tokens must do to each object
CommitRealisesToken_Step ==
    (dUpdates # NoUpdates /\ dUpdates' = NoUpdates) =>
        \A o \in Objects :
            IsSome(dUpdates[o]) =>
                LET t == Unwrap(dUpdates[o])
                    base_current == DualVersionedData_get_current(dData, o)
                    base_active == DualVersionedData_get_active(dData, o)
                IN /\ DualVersionedData_get_current(dData', o)
                        = DualVersionedUpdate_get_current(t, base_current)
                   /\ DualVersionedData_get_active(dData', o)
                        = DualVersionedUpdate_get_active(t, base_current, base_active)

\* C22: commit realises the token: after the commit an object has a current
\* record exactly when get_current of its token over the prior state is some,
\* and an active record exactly when get_active is some, with those payloads.
CommitRealisesToken == [][CommitRealisesToken_Step]_vars

\* C24: inside a transaction an object whose last buffered edit is a remove
\* (no insert after it) has no visible current payload, although it may be
\* current in the base data: update and a second remove change nothing.
RemovedNotVisible ==
    \A o \in Objects :
        (/\ IsSome(dUpdates[o])
         /\ Unwrap(dUpdates[o]).tag \in {"Remove", "ActivateRemove",
                                         "InsertActivateRemove", "RemoveActivate"})
            => /\ IsNone(DualVersionedTransaction_get_current(dData, dUpdates, o))
               /\ DualVersionedTransaction_remove(dData, dUpdates, o) = dUpdates
               /\ \A v \in Values, c \in BOOLEAN :
                    DualVersionedTransaction_update(dData, dUpdates, o, v, c) = dUpdates

(* ---------------- the token algebra ---------------- *)

InitAlg ==
    /\ SharedIdle
    /\ DualIdle
    /\ SingleIdle
    /\ RegIdle
    /\ bulk = NoBulk
    /\ VerifyIdle
    /\ ConnIdle
    /\ wait = << >>
    /\ CallIdle
    /\ \E bc, ba \in {None} \cup {Some(v) : v \in Values} :
        alg = [base_current |-> bc, base_active |-> ba, token |-> None,
               ref_current |-> bc, ref_active |-> ba]

\* one primitive edit: the Vacant arm of the transaction's entry for the
\* first edit, the rewrite of DualVersionedUpdate for the later ones; the
\* reference state is edited alongside
AlgEdit(edit, v, c) ==
    /\ alg' = [alg EXCEPT
          !.token =
              Some(CASE edit = "insert" ->
                          IF IsNone(alg.token) THEN T_Insert(v, c)
                          ELSE DualVersionedUpdate_insert(Unwrap(alg.token), v, c)
                     [] edit = "remove" ->
                          IF IsNone(alg.token) THEN T_Remove
                          ELSE DualVersionedUpdate_remove(Unwrap(alg.token))
                     [] OTHER ->
                          IF IsNone(alg.token) THEN T_Activate
                          ELSE DualVersionedUpdate_activate(Unwrap(alg.token))),
          !.ref_current = CASE edit = "insert" -> Some(v)
                            [] edit = "remove" -> None
                            [] OTHER -> alg.ref_current,
          !.ref_active = IF edit = "activate" THEN alg.ref_current ELSE alg.ref_active]
    /\ UNCHANGED << sharedVars, dualVars, singleVars, regVars, bulk, verifyVars, connVars, wait, callVars >>

NextAlg ==
    \E edit \in {"insert", "remove", "activate"}, v \in Values, c \in BOOLEAN :
        AlgEdit(edit, v, c)

SpecAlg == InitAlg /\ [][NextAlg]_vars

\* C23: after every non-empty sequence of insert, remove and activate the
\* projections of the token over the base equal the state reached by the
\* reference semantics (insert sets current, remove clears it, activate
\* copies current to active).
TokenMatchesSequential ==
    IsSome(alg.token) =>
        /\ DualVersionedUpdate_get_current(Unwrap(alg.token), alg.base_current)
                = alg.ref_current
        /\ DualVersionedUpdate_get_active(Unwrap(alg.token), alg.base_current,
                                          alg.base_active)
                = alg.ref_active

TokenMatchesSequential_Witness ==
    /\ IsSome(alg.token)
    /\ Unwrap(alg.token).tag = "InsertActivateInsert"
    /\ Unwrap(alg.token).before # Unwrap(alg.token).value
    /\ IsSome(alg.base_active)

(* ---------------- what single commit arms emit ---------------- *)

\* a DCommit step whose transaction holds token tag for o, on prior state kind
CommitsOn(o, tag, kind) ==
    /\ dUpdates # NoUpdates
    /\ dUpdates' = NoUpdates
    /\ IsSome(dUpdates[o])
    /\ Unwrap(dUpdates[o]).tag = tag
    /\ Kind(dData[o]) = kind

\* the entries the committing step put into the batch for object o
EntriesOf(o) == {i \in DOMAIN lastBatch' : lastBatch'[i].object_id = o}

InsertOnActivated_Step ==
    \A o \in Objects :
        CommitsOn(o, "Insert", "Activated") =>
            LET t == Unwrap(dUpdates[o])
                shared == Act(dData[o])
                b == lastBatch'
            IN /\ EntriesOf(o) = {shared.elastic_id, nextId}
               /\ shared.elastic_id # nextId
               /\ nextId \notin DOMAIN store
               /\ b[shared.elastic_id].version = shared.version + 1
               /\ b[shared.elastic_id].value =
                    [shared.value EXCEPT !.version.current.to = Some(now)]
               /\ IsSome(shared.value.version.active)
               /\ IsNone(Unwrap(b[shared.elastic_id].value.version.active).to)
               /\ b[nextId].version = 0
               /\ b[nextId].value.version.current.from = now
               /\ IsNone(b[nextId].value.version.current.to)
               /\ b[nextId].value.value = t.value
               /\ Kind(dData'[o]) = "Updated"
               /\ Act(dData'[o]) =
                    [elastic_id |-> shared.elastic_id,
                     version |-> b[shared.elastic_id].version,
                     value |-> b[shared.elastic_id].value]
               /\ Cur(dData'[o]) =
                    [elastic_id |-> nextId, version |-> 0, value |-> b[nextId].value]
               /\ Committed(dData'[o]) = t.commit

\* C25: committing Insert(v, c) on an Activated object emits exactly two
\* entries, the shared record (version+1, current.to = now, active anchor
\* unchanged and open) and a new record under a fresh id (version 0,
\* current = (now, none), payload v), and leaves the object Updated with
\* active = the rewritten shared record, current = the new record and
\* committed = c.
InsertOnActivated == [][InsertOnActivated_Step]_vars

InsertOnActivated_Witness ==
    /\ phase = "flush"
    /\ \E o \in Objects :
        /\ Kind(dData[o]) = "Updated"
        /\ Act(dData[o]).version = 1
        /\ Cur(dData[o]).version = 0
        /\ Cur(dData[o]).value.version.current.from = 2
        /\ Act(dData[o]).value.version.current.to = Some(2)
        /\ Act(dData[o]).elastic_id \in DOMAIN lastBatch
        /\ Cur(dData[o]).elastic_id \in DOMAIN lastBatch

ActiveChainIdentity_Step ==
    \A o \in Objects :
        (/\ dUpdates # NoUpdates
         /\ dUpdates' = NoUpdates
         /\ Kind(dData[o]) \in {"Activated", "Updated", "Removed"}
         /\ IsSome(Act(dData[o]).value.version.active)
         /\ Kind(dData'[o]) \in {"Activated", "Updated", "Removed"}
         /\ IsSome(Act(dData'[o]).value.version.active)
         /\ Unwrap(Act(dData'[o]).value.version.active).from = now
         /\ Unwrap(Act(dData[o]).value.version.active).from # now)
            => Unwrap(Act(dData'[o]).value.version.active).created
                    = Unwrap(Act(dData[o]).value.version.active).created

\* C26: a commit that opens a new active segment for an object that had an
\* active record gives the new active anchor the created time of the prior
\* active anchor, whatever the token and the prior state.
ActiveChainIdentity == [][ActiveChainIdentity_Step]_vars

InsertOnUncommitted_Step ==
    \A o \in Objects :
        (/\ \/ CommitsOn(o, "Insert", "Created")
            \/ CommitsOn(o, "Insert", "Updated")
         /\ ~Committed(dData[o])) =>
            LET t == Unwrap(dUpdates[o])
                old == Cur(dData[o])
                b == lastBatch'
            IN /\ EntriesOf(o) = {old.elastic_id}
               /\ old.elastic_id \in StoredOf(o)
               /\ b[old.elastic_id].version = old.version + 1
               /\ b[old.elastic_id].value.version.current = old.value.version.current
               /\ b[old.elastic_id].value.value = t.value
               /\ b[old.elastic_id].value.version.committed =
                    (IF t.commit THEN Some(now) ELSE None)
               /\ Kind(dData'[o]) = Kind(dData[o])
               /\ Cur(dData'[o]).elastic_id = old.elastic_id

\* C27: an Insert committed on an object whose current record is
\* uncommitted (Created or Updated with committed = false) creates no
\* document: its one entry rewrites the stored current record under the
\* same document id with version+1, the same current anchor, the new
\* payload and committed set iff the commit flag is true.
InsertOnUncommitted == [][InsertOnUncommitted_Step]_vars

InsertOnUncommitted_Witness ==
    /\ Quiescent
    /\ \E o \in Objects :
        /\ Kind(dData[o]) = "Updated"
        /\ Cur(dData[o]).version = 1
        /\ Cur(dData[o]).value.version.current.from = 1
        /\ Cur(dData[o]).value.version.committed = Some(2)
        /\ Cur(dData[o]).elastic_id \in StoredOf(o)
        /\ store[Cur(dData[o]).elastic_id].version = 1
        /\ Cardinality(StoredOf(o)) = 2

(* ---------------- the order of the writes of one commit ---------------- *)

\* the places a batch entry has in the order close-old-active (1),
\* close-old-current (2), open-new-active (3), open-new-current (4)
Roles(e) ==
    LET v == e.value.version
    IN {r \in 1 .. 4 :
          \/ r = 1 /\ IsSome(v.active) /\ Unwrap(v.active).to = Some(now)
          \/ r = 2 /\ v.current.to = Some(now)
          \/ r = 3 /\ IsSome(v.active) /\ Unwrap(v.active).from = now
                   /\ IsNone(Unwrap(v.active).to)
          \/ r = 4 /\ v.current.from = now /\ IsNone(v.current.to)}

WriteOrder_Step ==
    \A i \in (DOMAIN batch) \ (DOMAIN batch') :
        \A j \in DOMAIN batch' :
            (/\ phase = "flush"
             /\ batch[i].object_id = batch[j].object_id
             /\ Roles(batch[i]) # {}
             /\ Roles(batch[j]) # {})
                => \E r \in Roles(batch[i]), s \in Roles(batch[j]) : r <= s

\* C28: the writes of one commit for one object are flushed in the order
\* close-old-active, close-old-current, open-new-active, open-new-current:
\* no entry is sent while an entry whose writes all come earlier in that
\* order is still waiting in the batch.
WriteOrder == [][WriteOrder_Step]_vars

(* ---------------- what a single-timeline commit emits ---------------- *)

\* the entries for o in the batches the committing step hands out
SingleEntriesOf(o) ==
    {e \in UNION {{[id |-> i, ent |-> b[i]] : i \in DOMAIN b} : b \in CommittedBatches} :
        e.ent.object_id = o}

SingleCommitEmits_Step ==
    \A o \in Objects :
        (now' # now /\ IsSome(sUpdates[o])) =>
            LET upd == Unwrap(sUpdates[o])
                live == IsSome(sData[o])
                old == Unwrap(sData[o])
                closing == [id |-> old.elastic_id,
                            ent |-> [version |-> old.version + 1, object_id |-> o,
                                     value |-> [old.value EXCEPT !.version.to = Some(now)]]]
                opening == [id |-> nextId,
                            ent |-> [version |-> 0, object_id |-> o,
                                     value |-> Unwrap(sData'[o]).value]]
                opened == /\ IsSome(sData'[o])
                          /\ Unwrap(sData'[o]).elastic_id = nextId
                          /\ Unwrap(sData'[o]).version = 0
                          /\ Unwrap(sData'[o]).value.version.from = now
                          /\ IsNone(Unwrap(sData'[o]).value.version.to)
                          /\ Unwrap(sData'[o]).value.value = Unwrap(upd)
                          /\ nextId \notin DOMAIN store
            IN CASE IsSome(upd) /\ live
                        /\ (force_update \/ Unwrap(upd) # old.value.value) ->
                        /\ opened
                        /\ SingleEntriesOf(o) = {closing, opening}
                        /\ closing.id # opening.id
                  [] IsSome(upd) /\ ~live ->
                        /\ opened
                        /\ SingleEntriesOf(o) = {opening}
                  [] IsNone(upd) /\ live ->
                        /\ IsNone(sData'[o])
                        /\ SingleEntriesOf(o) = {closing}
                  [] OTHER -> TRUE

\* C29: committing an upsert of a differing payload (any payload with
\* force_update) for a live object emits the old record with version+1 and
\* to = now and a new record under a fresh id with version 0, from = now,
\* to = none, and the map holds the new record; an upsert for a non-live
\* object emits only the new record; a remove of a live object emits only
\* the closing entry and deletes the object from the map.
SingleCommitEmits == [][SingleCommitEmits_Step]_vars

SingleCommitEmits_Witness ==
    \E o \in Objects :
        /\ IsSome(sData[o])
        /\ Unwrap(sData[o]).elastic_id = 2
        /\ Unwrap(sData[o]).value.version.from = 2
        /\ \E b \in pending :
            /\ DOMAIN b = {1, 2}
            /\ b[1].version = 1
            /\ b[1].value.version.to = Some(2)
            /\ b[2].value.value # b[1].value.value

\* o is live as the transaction sees it: its buffered edit is an upsert, or
\* it has no buffered edit and is in the map
LiveInTransaction(o) ==
    IF IsSome(sUpdates[o]) THEN IsSome(Unwrap(sUpdates[o])) ELSE IsSome(sData[o])

\* C30: update(o, v) returns true and buffers v only when o is live as the
\* transaction sees it; when the buffered edit is a delete, or o is neither
\* buffered nor live, it returns false and leaves the buffer unchanged.
UpdateOnlyWhenLive ==
    \A o \in Objects, v \in Values :
        IF LiveInTransaction(o)
        THEN /\ SingleVersionedTransaction_update_ret(sData, sUpdates, o)
             /\ SingleVersionedTransaction_update(sData, sUpdates, o, v)
                    = [sUpdates EXCEPT ![o] = Some(Some(v))]
        ELSE /\ ~SingleVersionedTransaction_update_ret(sData, sUpdates, o)
             /\ SingleVersionedTransaction_update(sData, sUpdates, o, v) = sUpdates

(* ---------------- write guards of the registry ---------------- *)

\* C31: for every table id at most one write guard exists at any time
WriterMutualExclusion ==
    \A t \in TableIds :
        Cardinality({w \in Writers : HoldsWriteGuard(w) /\ writers[w].t = t}) <= 1

(* ---------------- write_table on the self-schemas table ---------------- *)

\* the calls may name any table id, the reserved id included
NextSelf ==
    \/ \E r \in Readers, t \in TableIds \cup {SCHEMA_TABLE} : R_lookup(r, t)
    \/ \E r \in Readers : R_acquire(r)
    \/ \E r \in Readers : R_release(r)
    \/ \E w \in Writers, op \in {"register", "unregister"},
          t \in TableIds \cup {SCHEMA_TABLE}, def \in Defs :
            W_lookup(w, op, t, def)
    \/ \E w \in Writers : W_schemas(w)
    \/ \E w \in Writers : W_take(w)
    \/ \E w \in Writers : W_register_body(w)
    \/ \E w \in Writers : W_unregister_body(w)
    \/ \E w \in Writers : W_register_run(w)
    \/ \E w \in Writers : W_unregister_run(w)
    \/ \E w \in Writers : W_drop(w)

SpecSelf == InitReg /\ [][NextSelf]_vars

\* C32: a write_table call that waits for the table's write lock while no
\* other task holds or awaits a guard can take the lock, so it returns a
\* guard or an error
WriteTableProgress ==
    \A w \in Writers :
        (/\ writers[w].pc = "write"
         /\ \A v \in Writers \ {w} : writers[v].pc = "idle"
         /\ \A r \in Readers : readers[r].pc = "idle")
            => ENABLED W_take(w)

\* a step of the tasks, for DropFindsEntry: prev of State::insert /
\* State::remove is the registry entry of the guard's table id
DropFindsEntry_Step ==
    \A w \in Writers :
        (writers[w].pc = "drop" /\ writers'[w].pc = "idle") =>
            IsSome(tables[writers[w].t])

\* C33: whenever a write guard is dropped the registry still holds an entry
\* for the guard's table id, so the debug assertions of State::insert and
\* State::remove hold
DropFindsEntry == [][DropFindsEntry_Step]_vars

(* ---------------- dbdaemon.rs: API calls on a single-timeline table ---------------- *)
\* Every modifying call has the same shape: read_table, then a block that
\* opens a transaction with Utc::now() (write_data_single_versioned takes
\* the table's data write lock), applies its operations and commits, then
\* updates.run(..).await.  bulk_update_discovery_objects applies a map of
\* operations; the other calls are the maps of one operation.

ApiTasks == {"a1", "a2"}

ApiObjects == {"o1", "o2"}

\* number of API calls
MaxApiCalls == 2

\* const CHUNK_SIZE of UpdateGuard::run, scaled down
CHUNK_SIZE == 2

ApiIds == 1 .. (MaxApiCalls * Cardinality(ApiObjects))

\* the payload of the calls: whether an upsert of a live object writes is
\* decided by force_update
ApiValues == {"x"}

\* enum Operation
Operations == {"Create", "Update", "CreateOrUpdate", "Remove"}

NoOps == [o \in ApiObjects |-> None]

OperationMaps == [ApiObjects -> {None} \cup {Some(op) : op \in Operations}]

IdleCall ==
    [pc |-> "idle", n |-> 0, ops |-> NoOps, todo |-> {}, value |-> NoVal, now |-> 0,
     updates |-> EmptyBatch, batch |-> EmptyBatch, reqs |-> << >>, res |-> ""]

\* the closure of try_for_each that lets every operation pass
Operation_apply_lenient(d, upd, o, op, value) ==
    CASE op = "Create" ->
            [ok |-> TRUE, err |-> "",
             upd |-> SingleVersionedTransaction_create(d, upd, o, value)]
      [] op = "Update" ->
            [ok |-> TRUE, err |-> "",
             upd |-> SingleVersionedTransaction_update(d, upd, o, value)]
      [] op = "CreateOrUpdate" ->
            [ok |-> TRUE, err |-> "",
             upd |-> SingleVersionedTransaction_insert(upd, o, value)]
      [] OTHER ->
            [ok |-> TRUE, err |-> "",
             upd |-> SingleVersionedTransaction_remove(d, upd, o)]

\* the closure of try_for_each in bulk_update_discovery_objects: one
\* operation is buffered, or its error is returned
Operation_apply(d, upd, o, op, value) ==
    CASE op = "Create" ->
            LET u == SingleVersionedTransaction_create(d, upd, o, value)
            IN [ok |-> u # upd, err |-> "ObjectIdAlreadyExists", upd |-> u]
      [] op = "Update" ->
            [ok |-> SingleVersionedTransaction_update_ret(d, upd, o),
             err |-> "ObjectDoesNotExist",
             upd |-> SingleVersionedTransaction_update(d, upd, o, value)]
      [] op = "CreateOrUpdate" ->
            [ok |-> TRUE, err |-> "",
             upd |-> SingleVersionedTransaction_insert(upd, o, value)]
      [] OTHER ->
            LET u == SingleVersionedTransaction_remove(d, upd, o)
            IN [ok |-> u # upd, err |-> "ObjectDoesNotExist", upd |-> u]

\* a commit that leaves the data lock with the caller
DataWriteGuard_commit_kept(holder) == holder

\* DataWriteGuard::commit consumes the guard and with it the transaction,
\* whose MappedRwLockWriteGuard is dropped when commit returns
DataWriteGuard_commit(holder) == None

\* a run that sends all that is left in one request
UpdateGuard_run_take_all(n) == n

\* UpdateGuard::run, the number of entries of the next request when n are
\* left: take(CHUNK_SIZE) of more than one, else the single entry
UpdateGuard_run_take(n) ==
    IF n > 1 THEN (IF n < CHUNK_SIZE THEN n ELSE CHUNK_SIZE) ELSE 1

\* UpdateGuard::run, the call that carries the next request
UpdateGuard_run_call(n) == IF n > 1 THEN "bulk_update" ELSE "update_object"

\* the store after a request with the entries chunk of batch b
StoreChunk(st, b, chunk) ==
    [i \in (DOMAIN st) \cup chunk |->
        IF i \in chunk THEN update_object(st, i, b[i])[i] ELSE st[i]]

\* the calls the tasks have made so far
ApiCallsMade ==
    Cardinality({c \in ApiTasks \X (1 .. MaxApiCalls) : c[2] <= api[c[1]].n})

InitCall ==
    /\ store = << >>
    /\ nextId = 1
    /\ now = 1
    /\ DualIdle
    /\ RegIdle
    /\ bulk = NoBulk
    /\ VerifyIdle
    /\ ConnIdle
    /\ wait = << >>
    /\ alg = << >>
    /\ sData = NoOps
    /\ sUpdates = NoOps
    /\ pending = {}
    /\ force_update \in BOOLEAN
    /\ api = [t \in ApiTasks |-> IdleCall]
    /\ dlock = None

\* an API call up to the evaluation of Utc::now(), the argument of
\* write_data_single_versioned; the clock has advanced at the next reading
ApiCall(t, ops, v) ==
    /\ api[t].pc = "idle"
    /\ ApiCallsMade < MaxApiCalls
    /\ ops # NoOps
    /\ api' = [api EXCEPT ![t] =
            [pc |-> "sampled", n |-> api[t].n + 1, ops |-> ops,
             todo |-> {o \in ApiObjects : IsSome(ops[o])}, value |-> v,
             now |-> now, updates |-> EmptyBatch, batch |-> EmptyBatch,
             reqs |-> << >>, res |-> ""]]
    /\ now' = now + 1
    /\ UNCHANGED << store, nextId, dualVars, singleVars, regVars, bulk, verifyVars,
                    connVars, wait, alg, dlock >>

\* TableReadGuard::write_data_single_versioned: self.data.write()
ApiLock(t) ==
    /\ api[t].pc = "sampled"
    /\ IsNone(dlock)
    /\ dlock' = Some(t)
    /\ api' = [api EXCEPT ![t].pc = "locked"]
    /\ UNCHANGED << sharedVars, dualVars, singleVars, regVars, bulk, verifyVars,
                    connVars, wait, alg >>

\* one operation of the call, in the order of the HashMap's iteration (any
\* of those left); an error leaves the block with `?`, which
\* drops the transaction and its lock guard
ApiOperation(t, o) ==
    /\ api[t].pc = "locked"
    /\ o \in api[t].todo
    /\ LET r == Operation_apply(sData, sUpdates, o, Unwrap(api[t].ops[o]), api[t].value)
       IN IF r.ok
          THEN /\ sUpdates' = r.upd
               /\ api' = [api EXCEPT ![t].todo = @ \ {o}]
               /\ dlock' = dlock
          ELSE /\ sUpdates' = NoOps
               /\ api' = [api EXCEPT ![t].pc = "done", ![t].res = r.err]
               /\ dlock' = None
    /\ UNCHANGED << sharedVars, dualVars, sData, pending, force_update, regVars, bulk,
                    verifyVars, connVars, wait, alg >>

\* data.commit(): the end of the block, which has consumed the operations
\* and the timestamp; run() of an empty batch returns Ok without a request
ApiCommit(t) ==
    /\ api[t].pc = "locked"
    /\ api[t].todo = {}
    /\ LET r == SingleVersionedTransaction_commit(sData, sUpdates, api[t].now,
                                                 force_update, nextId)
       IN /\ sData' = r.data
          /\ nextId' = r.n
          /\ api' = [api EXCEPT ![t].updates = r.u, ![t].batch = r.u,
                        ![t].ops = NoOps, ![t].value = NoVal, ![t].now = 0,
                        ![t].pc = IF DOMAIN r.u = {} THEN "done" ELSE "run",
                        ![t].res = IF DOMAIN r.u = {} THEN "Ok" ELSE ""]
    /\ sUpdates' = NoOps
    /\ dlock' = DataWriteGuard_commit(dlock)
    /\ UNCHANGED << store, now, dualVars, pending, force_update, regVars, bulk,
                    verifyVars, connVars, wait, alg >>

\* UpdateGuard::run, one request: the next entries of the HashMap's
\* iteration (any of them), and the request's outcome
ApiRun(t, chunk, out) ==
    /\ api[t].pc = "run"
    /\ chunk \subseteq DOMAIN api[t].batch
    /\ Cardinality(chunk) = UpdateGuard_run_take(Cardinality(DOMAIN api[t].batch))
    /\ LET b == api[t].batch
           req == [call |-> UpdateGuard_run_call(Cardinality(DOMAIN b)), ids |-> chunk]
           rest == [i \in (DOMAIN b) \ chunk |-> b[i]]
       IN IF out = "ok"
          THEN /\ store' = StoreChunk(store, b, chunk)
               /\ api' = [api EXCEPT ![t].batch = rest,
                             ![t].reqs = Append(@, req),
                             ![t].pc = IF DOMAIN rest = {} THEN "done" ELSE "run",
                             ![t].res = IF DOMAIN rest = {} THEN "Ok" ELSE ""]
          ELSE /\ store' = store
               /\ api' = [api EXCEPT ![t].reqs = Append(@, req),
                             ![t].pc = "done",
                             ![t].res = "EsError"]
    /\ UNCHANGED << nextId, now, dualVars, singleVars, regVars, bulk, verifyVars,
                    connVars, wait, alg, dlock >>

\* the call returns its result to the caller
ApiReturn(t) ==
    /\ api[t].pc = "done"
    /\ api' = [api EXCEPT ![t] = [IdleCall EXCEPT !.n = api[t].n]]
    /\ UNCHANGED << sharedVars, dualVars, singleVars, regVars, bulk, verifyVars,
                    connVars, wait, alg, dlock >>

NextCall ==
    \/ \E t \in ApiTasks : ApiReturn(t)
    \/ \E t \in ApiTasks, ops \in OperationMaps, v \in ApiValues : ApiCall(t, ops, v)
    \/ \E t \in ApiTasks : ApiLock(t)
    \/ \E t \in ApiTasks, o \in ApiObjects : ApiOperation(t, o)
    \/ \E t \in ApiTasks : ApiCommit(t)
    \/ \E t \in ApiTasks, chunk \in SUBSET ApiIds, out \in Outcomes : ApiRun(t, chunk, out)

SpecCall == InitCall /\ [][NextCall]_vars

\* a step of the calls, for StoreCallUnlocked
StoreCallUnlocked_Step ==
    \A t \in ApiTasks :
        /\ (Len(api'[t].reqs) > Len(api[t].reqs)) =>
                (dlock # Some(t) /\ dlock' # Some(t))
        /\ (dlock' = Some(t)) => api'[t].pc = "locked"
        /\ (api[t].pc = "locked" /\ api'[t].pc = "done" /\ api'[t].res # "Ok") =>
                /\ dlock = Some(t)
                /\ IsNone(dlock')
                /\ sData' = sData
                /\ nextId' = nextId
                /\ api'[t].updates = EmptyBatch

\* C34: a task sends no request to the store while it holds the table's
\* data lock: the lock taken when the transaction is opened is released
\* when commit returns the batch, before the batch is flushed, and a call
\* whose precondition fails releases it without committing.
StoreCallUnlocked == [][StoreCallUnlocked_Step]_vars

\* a committed batch waits to be flushed while the other task holds the
\* data lock
StoreCallUnlocked_Witness ==
    \E t \in ApiTasks, u \in ApiTasks :
        /\ t # u
        /\ api[t].pc = "run"
        /\ DOMAIN api[t].batch # {}
        /\ dlock = Some(u)
        /\ api[u].pc = "locked"

\* the document ids of the first k requests of a run
RECURSIVE RequestedIds(_, _)
RequestedIds(rs, k) ==
    IF k = 0 THEN {} ELSE rs[k].ids \cup RequestedIds(rs, k - 1)

\* the number of entries the first k requests carried
RECURSIVE RequestedCount(_, _)
RequestedCount(rs, k) ==
    IF k = 0 THEN 0 ELSE Cardinality(rs[k].ids) + RequestedCount(rs, k - 1)

\* a step of the calls, for RunSendsOnce
RunSendsOnce_Step ==
    \A t \in ApiTasks :
        /\ (api[t].pc = "locked" /\ api'[t].pc = "done" /\ api'[t].res = "Ok") =>
                /\ api'[t].updates = EmptyBatch
                /\ api'[t].reqs = << >>
                /\ store' = store
        /\ (api[t].pc = "run" /\ api'[t] # api[t]) =>
                LET n == Cardinality(DOMAIN api[t].batch)
                    rs == api'[t].reqs
                    req == rs[Len(rs)]
                    size == Cardinality(req.ids)
                    delivered == api'[t].res # "EsError"
                IN /\ n > 0
                   /\ Len(rs) = Len(api[t].reqs) + 1
                   /\ req.ids \subseteq DOMAIN api[t].batch
                   /\ size <= CHUNK_SIZE
                   /\ IF n = 1
                      THEN req.call = "update_object" /\ size = 1
                      ELSE /\ req.call = "bulk_update"
                           /\ size = (IF n < CHUNK_SIZE THEN n ELSE CHUNK_SIZE)
                   /\ IF delivered
                      THEN /\ DOMAIN api'[t].batch = (DOMAIN api[t].batch) \ req.ids
                           /\ Cardinality(DOMAIN api'[t].batch) < n
                           /\ \A i \in req.ids :
                                i \in DOMAIN store' /\ store'[i].version >= api[t].batch[i].version
                           /\ IF DOMAIN api'[t].batch = {}
                              THEN /\ api'[t].pc = "done"
                                   /\ api'[t].res = "Ok"
                                   /\ RequestedIds(rs, Len(rs)) = DOMAIN api[t].updates
                                   /\ RequestedCount(rs, Len(rs))
                                        = Cardinality(DOMAIN api[t].updates)
                              ELSE api'[t].pc = "run"
                      ELSE /\ api'[t].pc = "done"
                           /\ store' = store

\* C35: run issues no request for an empty batch, one update_object for a
\* batch of one entry, and for more entries bulk requests of at most
\* CHUNK_SIZE entries with a single left-over entry sent by update_object;
\* every request shortens the batch, a run without a failure has sent every
\* entry exactly once, and the first failing request ends the run with its
\* error.
RunSendsOnce == [][RunSendsOnce_Step]_vars

\* a run of three entries has ended: one bulk request, then update_object
RunSendsOnce_Witness ==
    \E t \in ApiTasks :
        /\ api[t].pc = "done"
        /\ api[t].res = "Ok"
        /\ Len(api[t].reqs) = 2
        /\ api[t].reqs[1].call = "bulk_update"
        /\ api[t].reqs[2].call = "update_object"
        /\ Cardinality(DOMAIN api[t].updates) = CHUNK_SIZE + 1

\* the precondition of operation op on object o fails on the table's data
PreconditionFails(op, o) ==
    \/ op = "Create" /\ IsSome(sData[o])
    \/ op \in {"Update", "Remove"} /\ IsNone(sData[o])

\* a step of the calls, for BulkAllOrNothing
BulkAllOrNothing_Step ==
    \A t \in ApiTasks :
        /\ \A o \in ApiObjects :
            (api[t].pc = "locked" /\ o \in api[t].todo /\ o \notin api'[t].todo) =>
                /\ ~PreconditionFails(Unwrap(api[t].ops[o]), o)
                /\ api'[t].pc = "locked"
                /\ IsSome(sUpdates'[o])
        /\ (api[t].pc = "locked" /\ api'[t].pc = "done" /\ api[t].todo # {}) =>
                /\ \E o \in api[t].todo :
                    /\ PreconditionFails(Unwrap(api[t].ops[o]), o)
                    /\ api'[t].res = (IF Unwrap(api[t].ops[o]) = "Create"
                                      THEN "ObjectIdAlreadyExists"
                                      ELSE "ObjectDoesNotExist")
                /\ api'[t].updates = EmptyBatch
                /\ api'[t].reqs = << >>
                /\ sData' = sData
                /\ sUpdates' = NoOps
                /\ store' = store
        /\ (/\ api[t].pc = "locked"
            /\ \E o \in api[t].todo : PreconditionFails(Unwrap(api[t].ops[o]), o)) =>
                /\ api'[t].pc \in {"locked", "done"}
                /\ api'[t].pc = "done" =>
                        api'[t].res \in {"ObjectIdAlreadyExists", "ObjectDoesNotExist"}
                /\ sData' = sData
                /\ api'[t] # api[t] => store' = store
        /\ (api[t].pc = "done" /\ api[t].res \in {"ObjectIdAlreadyExists", "ObjectDoesNotExist"})
                => /\ api'[t].pc \in {"done", "idle"}
                   /\ api'[t].reqs = << >>
                   /\ (api'[t].pc = "idle" => (sData' = sData /\ store' = store))

\* C37: when the precondition of an operation of the map fails (Create of
\* a live id, Update or Remove of a non-live id) the call returns
\* ObjectIdAlreadyExists or ObjectDoesNotExist, sends nothing to the store
\* and leaves the table's data as it was, whatever it had buffered before.
BulkAllOrNothing == [][BulkAllOrNothing_Step]_vars

\* a call of two operations has failed on the second after the first was
\* buffered
BulkAllOrNothing_Witness ==
    \E t \in ApiTasks :
        /\ api[t].pc = "done"
        /\ api[t].res = "ObjectDoesNotExist"
        /\ Cardinality(api[t].todo) = 1
        /\ \E o \in ApiObjects \ api[t].todo :
            /\ api[t].ops[o] = Some("CreateOrUpdate")
            /\ IsNone(sData[o])

\* C39: when calls on the same table run concurrently under a clock that
\* never goes back, every anchor in the store has from <= to, although a
\* call samples its timestamp before it takes the data lock.
StoredAnchorsOrdered ==
    \A id \in DOMAIN store :
        LET a == store[id].value.version
        IN IsSome(a.to) => a.from <= Unwrap(a.to)

\* the last record of object o among the first k records of the scan
RECURSIVE LastOf(_, _)
LastOf(o, k) ==
    IF k = 0 THEN None
    ELSE IF vdocs[k].object_id = o
         THEN Some([id |-> vdocs[k].elastic_id, to |-> vdocs[k].to])
         ELSE LastOf(o, k - 1)

\* C36: a verification that ends without an error has examined every
\* record of the table, however many there are: its last Progress message
\* carries their number and the scan has gone through the last record of
\* every object.
ScanExaminesAll ==
    (worker.pc = "done" /\ sent # << >> /\ sent[Len(sent)].kind = "Progress") =>
        /\ sent[Len(sent)].n = Len(vdocs)
        /\ \A o \in VObjects : worker.objects[o] = LastOf(o, Len(vdocs))

(* ---------------- dual_versioned_data.rs: load ---------------- *)

\* DualVersionedObj::from_doc
DualVersionedObj_from_doc(elastic_id, version, value) ==
    LET is_current == IsNone(value.version.current.to)
        is_active == /\ IsSome(value.version.active)
                     /\ IsNone(Unwrap(value.version.active).to)
        committed == IsSome(value.version.committed)
        doc == [elastic_id |-> elastic_id, version |-> version, value |-> value]
    IN CASE is_current /\ is_active -> Some(DualVersionedObj_activated(doc))
         [] ~is_current /\ is_active -> Some(DualVersionedObj_removed(doc))
         [] is_current /\ ~is_active -> Some(DualVersionedObj_created(doc, committed))
         [] OTHER -> None

\* DualVersionedObj::combine: Ok(obj) is Some(obj), Err is None
DualVersionedObj_combine(a, b) ==
    CASE a.kind = "Created" /\ b.kind = "Removed" ->
            Some(DualVersionedObj_updated(Unwrap(b.active), Unwrap(a.current), a.committed))
      [] a.kind = "Removed" /\ b.kind = "Created" ->
            Some(DualVersionedObj_updated(Unwrap(a.active), Unwrap(b.current), b.committed))
      [] OTHER -> None

\* the records the query of load returns:
\* filter_current_dual().or(filter_active_dual())
LoadFilter(st) ==
    {id \in DOMAIN st :
        \/ IsNone(st[id].value.version.current.to)
        \/ /\ IsSome(st[id].value.version.active)
           /\ IsNone(Unwrap(st[id].value.version.active).to)}

\* the fold of load over the records ids of one object, taken in any order:
\* combine is symmetric and fails on a third record, so the outcome does
\* not depend on the order.  None stands for InconsistentData.
LoadObject(st, ids) ==
    LET obj(id) == DualVersionedObj_from_doc(id, st[id].version, st[id].value)
    IN IF \E id \in ids : IsNone(obj(id)) THEN None
       ELSE IF Cardinality(ids) = 1
            THEN obj(CHOOSE id \in ids : TRUE)
       ELSE IF Cardinality(ids) = 2
            THEN LET a == CHOOSE id \in ids : TRUE
                     b == CHOOSE id \in ids : id # a
                 IN DualVersionedObj_combine(Unwrap(obj(a)), Unwrap(obj(b)))
       ELSE None

\* DualVersionedData::load: ok is FALSE for InconsistentData, else data is
\* the map
DualVersionedData_load(st) ==
    LET of(o) == {id \in LoadFilter(st) : st[id].object_id = o}
    IN [ok |-> \A o \in Objects : of(o) = {} \/ IsSome(LoadObject(st, of(o))),
        data |-> [o \in Objects |->
                    IF of(o) = {} THEN None ELSE LoadObject(st, of(o))]]

\* what the claim compares of a document: id, version and payload
DocFace(d) == IF IsNone(d) THEN None
              ELSE Some([elastic_id |-> Unwrap(d).elastic_id,
                         version |-> Unwrap(d).version,
                         value |-> Unwrap(d).value.value])

ObjFace(e) == IF IsNone(e) THEN None
              ELSE Some([kind |-> Unwrap(e).kind,
                         active |-> DocFace(Unwrap(e).active),
                         current |-> DocFace(Unwrap(e).current)])

\* C38: with every transaction flushed, loading the table from the store
\* succeeds and gives, for every object, the state kind, document ids,
\* versions and payloads of the map in memory, and no object the map does
\* not hold.
LoadMatchesMemory ==
    Quiescent =>
        LET r == DualVersionedData_load(store)
        IN /\ r.ok
           /\ \A o \in Objects : ObjFace(r.data[o]) = ObjFace(dData[o])

\* the documents the map in memory holds for object o
DocsInMemory(o) ==
    IF IsNone(dData[o]) THEN {}
    ELSE {Unwrap(d) : d \in {x \in {Unwrap(dData[o]).active, Unwrap(dData[o]).current} :
                                    IsSome(x)}}

\* C40: version numbers identify writes: an entry of a batch whose version
\* the store would refuse is the record the store already holds, and, with
\* every batch flushed, each document of the map in memory carries the
\* highest version written for its id, which is the version in the store.
VersionsIdentifyWrites ==
    /\ \A id \in DOMAIN batch :
          (id \in DOMAIN store /\ batch[id].version <= store[id].version) =>
                store[id] = batch[id]
    /\ Quiescent =>
          \A o \in Objects : \A d \in DocsInMemory(o) :
                /\ d.elastic_id \in DOMAIN store
                /\ d.version = store[d.elastic_id].version

====
